---- MODULE Spec2Model ----
(***************************************************************************)
(* tag-patrol: the resource model (pkg/cloudresource), the rule evaluation *)
(* engine (pkg/ruler) and the concurrent orchestrator (pkg/patrol).        *)
(*                                                                         *)
(* Strings that the code inspects character by character (tag values) are  *)
(* sequences of one-character strings; tag keys and messages, which the    *)
(* code only compares or stores, are atomic.                               *)
(***************************************************************************)
EXTENDS Integers, Sequences, FiniteSets, Bags, TLC

(***************************************************************************)
(* Bounds of the model.                                                    *)
(***************************************************************************)
MaxDefs == 2
MaxWorkers == 2
MaxCalls == 3

(***************************************************************************)
(* Go values.                                                              *)
(***************************************************************************)
Nil == [kind |-> "nil"]

Digits == <<"0", "1", "2", "3", "4", "5", "6", "7", "8", "9">>

IsDigit(c) == \E i \in 1..10 : Digits[i] = c

DigitVal(c) == (CHOOSE i \in 1..10 : Digits[i] = c) - 1

RECURSIVE DigitsVal(_)
DigitsVal(s) ==
    IF Len(s) = 0 THEN 0
    ELSE 10 * DigitsVal(SubSeq(s, 1, Len(s) - 1)) + DigitVal(s[Len(s)])

AllDigits(s) == Len(s) > 0 /\ \A i \in 1..Len(s) : IsDigit(s[i])

\* strconv.Atoi: an optional sign followed by one or more decimal digits.
Atoi(s) ==
    LET signed == Len(s) > 0 /\ s[1] \in {"+", "-"}
        body   == IF signed THEN SubSeq(s, 2, Len(s)) ELSE s
    IN  IF AllDigits(body)
        THEN [err |-> FALSE,
              val |-> IF signed /\ s[1] = "-" THEN 0 - DigitsVal(body) ELSE DigitsVal(body)]
        ELSE [err |-> TRUE, val |-> 0]

\* slices.Contains
Contains(list, x) == \E i \in 1..Len(list) : list[i] = x

\* strings.Contains: sub occurs in s as a contiguous run.
StringsContains(s, sub) ==
    \E i \in 0..(Len(s) - Len(sub)) : SubSeq(s, i + 1, i + Len(sub)) = sub

(***************************************************************************)
(* The resource model: AWSResource (and the tests' MockResource).          *)
(***************************************************************************)
NewResource(tags) == [ResourceTags |-> tags, Errors |-> <<>>, Warnings |-> <<>>]

Tags(r) == r.ResourceTags

HasTag(r, key) == key \in DOMAIN Tags(r)

\* Mutant: warnings count against compliance.
IsCompliantNoFindings(r) == Len(r.Errors) = 0 /\ Len(r.Warnings) = 0

IsCompliant(r) == Len(r.Errors) = 0

AddComplianceError(r, msg) == [r EXCEPT !.Errors = Append(@, msg)]

AddComplianceWarning(r, msg) == [r EXCEPT !.Warnings = Append(@, msg)]

ComplianceErrors(r) == r.Errors

ComplianceWarnings(r) == r.Warnings

(***************************************************************************)
(* Compliance messages.  fmt.Sprintf keeps the arguments apart, so a       *)
(* message is the format it was built from together with its arguments.    *)
(***************************************************************************)
MsgMissingMandatory(key) == [fmt |-> "Missing mandatory tag", key |-> key]

MsgNotAllowed(key, value, allowed) ==
    [fmt |-> "not in allowed values", key |-> key, value |-> value, allowed |-> allowed]

MsgNoRegexMatch(key, value, regex) ==
    [fmt |-> "does not match regex", key |-> key, value |-> value, regex |-> regex]

MsgNotBool(key, value) == [fmt |-> "not a valid boolean", key |-> key, value |-> value]

MsgNotInt(key, value) == [fmt |-> "not a valid integer", key |-> key, value |-> value]

MsgLessThanMin(key, intVal, min) ==
    [fmt |-> "less than minimum", key |-> key, value |-> intVal, min |-> min]

MsgGreaterThanMax(key, intVal, max) ==
    [fmt |-> "greater than maximum", key |-> key, value |-> intVal, max |-> max]

MsgMissingRequired(key) == [fmt |-> "Missing required tag", key |-> key]

MsgMissingRecommended(key) == [fmt |-> "Missing recommended tag", key |-> key]

MsgLiteral(text) == [fmt |-> "literal", text |-> text]

(***************************************************************************)
(* Policy types (pkg/policy/types).                                        *)
(***************************************************************************)
TagTypeString == "string"

TagTypeBool == "bool"

TagTypeInt == "int"

\* A regular expression is the empty string (NoRegex) or a pattern:
\* "class+" is ^[class]+$ and "literal" is an unanchored literal; a pattern
\* that does not compile has compiles = FALSE.
NoRegex == [kind |-> "empty"]

RegexClassPlus(class) == [kind |-> "class+", compiles |-> TRUE, class |-> class]

RegexLiteral(lit) == [kind |-> "literal", compiles |-> TRUE, lit |-> lit]

RegexBroken == [kind |-> "broken", compiles |-> FALSE]

\* regexp.MatchString
MatchString(regex, value) ==
    IF regex.kind = "class+"
    THEN Len(value) > 0 /\ \A i \in 1..Len(value) : value[i] \in regex.class
    ELSE StringsContains(value, regex.lit)

Validation(type, allowed, regex, min, max) ==
    [Type |-> type, AllowedValues |-> allowed, Regex |-> regex,
     MinValue |-> min, MaxValue |-> max]

TagPolicy(keys, validations, rules) ==
    [MandatoryKeys |-> keys, Validations |-> validations, Rules |-> rules]

EmptyMap == [k \in {} |-> Nil]

EmptyCondition ==
    [Exists |-> Nil, Equals |-> Nil, NotEquals |-> Nil, Contains |-> Nil,
     GreaterThan |-> Nil, LessThan |-> Nil, And |-> <<>>, Or |-> <<>>]

ExistsCondition(key) == [EmptyCondition EXCEPT !.Exists = [Key |-> key]]

EqualsCondition(key, value) == [EmptyCondition EXCEPT !.Equals = [Key |-> key, Value |-> value]]

NotEqualsCondition(key, value) ==
    [EmptyCondition EXCEPT !.NotEquals = [Key |-> key, Value |-> value]]

ContainsCondition(key, value) ==
    [EmptyCondition EXCEPT !.Contains = [Key |-> key, Value |-> value]]

GreaterThanCondition(key, value) ==
    [EmptyCondition EXCEPT !.GreaterThan = [Key |-> key, Value |-> value]]

LessThanCondition(key, value) ==
    [EmptyCondition EXCEPT !.LessThan = [Key |-> key, Value |-> value]]

AndCondition(list) == [EmptyCondition EXCEPT !.And = list]

OrCondition(list) == [EmptyCondition EXCEPT !.Or = list]

Action(must, should, warn, error) ==
    [MustContainKeys |-> must, ShouldContainKeys |-> should, Warn |-> warn, Error |-> error]

Rule(when, then) == [When |-> when, Then |-> then]

(***************************************************************************)
(* The rule evaluation engine: DefaultRuler (pkg/ruler).                   *)
(***************************************************************************)
\* A condition value of type any: a string, an int or a bool.
AnyString(chars) == [t |-> "string", v |-> chars]

AnyInt(n) == [t |-> "int", v |-> n]

AnyBool(b) == [t |-> "bool", v |-> b]

RECURSIVE FormatNat(_)
FormatNat(n) == IF n < 10 THEN <<Digits[n + 1]>> ELSE FormatNat(n \div 10) \o <<Digits[(n % 10) + 1]>>

\* fmt.Sprintf("%v", value)
FormatV(value) ==
    CASE value.t = "string" -> value.v
      [] value.t = "int" -> IF value.v < 0 THEN <<"-">> \o FormatNat(0 - value.v) ELSE FormatNat(value.v)
      [] value.t = "bool" -> IF value.v THEN <<"t", "r", "u", "e">> ELSE <<"f", "a", "l", "s", "e">>

\* A float64 is kept as an integer number of hundredths.
FloatScale == 100

\* strconv.ParseFloat on decimal literals: an optional sign, digits and an
\* optional fraction of at most two digits, at least one digit in all.
ParseFloat(s) ==
    LET signed == Len(s) > 0 /\ s[1] \in {"+", "-"}
        body   == IF signed THEN SubSeq(s, 2, Len(s)) ELSE s
        dots   == {i \in 1..Len(body) : body[i] = "."}
        dot    == IF dots = {} THEN Len(body) + 1 ELSE CHOOSE i \in dots : \A j \in dots : i <= j
        whole  == SubSeq(body, 1, dot - 1)
        frac   == SubSeq(body, dot + 1, Len(body))
        ok     == /\ Cardinality(dots) <= 1
                  /\ Len(whole) + Len(frac) > 0
                  /\ \A i \in 1..Len(whole) : IsDigit(whole[i])
                  /\ \A i \in 1..Len(frac) : IsDigit(frac[i])
                  /\ Len(frac) <= 2
        fracv  == IF Len(frac) = 1 THEN 10 * DigitsVal(frac) ELSE DigitsVal(frac)
        mag    == FloatScale * DigitsVal(whole) + fracv
    IN  IF ok
        THEN [err |-> FALSE, val |-> IF signed /\ s[1] = "-" THEN 0 - mag ELSE mag]
        ELSE [err |-> TRUE, val |-> 0]

RECURSIVE validateMandatoryKeysFrom(_, _, _)
validateMandatoryKeysFrom(resource, keys, i) ==
    IF i > Len(keys) THEN resource
    ELSE validateMandatoryKeysFrom(
             IF ~HasTag(resource, keys[i])
             THEN AddComplianceError(resource, MsgMissingMandatory(keys[i]))
             ELSE resource,
             keys, i + 1)

\* Mutant: the loop starts at the second key.
validateMandatoryKeysSkipFirst(resource, keys) == validateMandatoryKeysFrom(resource, keys, 2)

validateMandatoryKeys(resource, keys) == validateMandatoryKeysFrom(resource, keys, 1)

\* Mutant: the allowed values are not looked at.
validateStringRegexOnly(resource, key, value, validation) ==
    IF validation.Regex.kind # "empty" /\ validation.Regex.compiles
                                       /\ ~MatchString(validation.Regex, value)
    THEN AddComplianceError(resource, MsgNoRegexMatch(key, value, validation.Regex))
    ELSE resource

validateString(resource, key, value, validation) ==
    LET r1 == IF Len(validation.AllowedValues) > 0 /\ ~Contains(validation.AllowedValues, value)
              THEN AddComplianceError(resource, MsgNotAllowed(key, value, validation.AllowedValues))
              ELSE resource
    IN  IF validation.Regex.kind # "empty" /\ validation.Regex.compiles
                                       /\ ~MatchString(validation.Regex, value)
        THEN AddComplianceError(r1, MsgNoRegexMatch(key, value, validation.Regex))
        ELSE r1

validateBool(resource, key, value) ==
    IF ~Contains(<< <<"t", "r", "u", "e">>, <<"f", "a", "l", "s", "e">> >>, value)
    THEN AddComplianceError(resource, MsgNotBool(key, value))
    ELSE resource

\* Mutant: a zero MinValue or MaxValue is a limit like any other.
validateIntZeroLimits(resource, key, value, validation) ==
    LET parsed == Atoi(value)
        intVal == parsed.val
        r1 == IF intVal < validation.MinValue
              THEN AddComplianceError(resource, MsgLessThanMin(key, intVal, validation.MinValue))
              ELSE resource
        r2 == IF intVal > validation.MaxValue
              THEN AddComplianceError(r1, MsgGreaterThanMax(key, intVal, validation.MaxValue))
              ELSE r1
    IN  IF parsed.err THEN AddComplianceError(resource, MsgNotInt(key, value))
        ELSE IF Len(validation.AllowedValues) > 0 /\ ~Contains(validation.AllowedValues, value)
        THEN AddComplianceError(r2, MsgNotAllowed(key, value, validation.AllowedValues))
        ELSE r2

validateInt(resource, key, value, validation) ==
    LET parsed == Atoi(value)
        intVal == parsed.val
        r1 == IF validation.MinValue # 0 /\ intVal < validation.MinValue
              THEN AddComplianceError(resource, MsgLessThanMin(key, intVal, validation.MinValue))
              ELSE resource
        r2 == IF validation.MaxValue # 0 /\ intVal > validation.MaxValue
              THEN AddComplianceError(r1, MsgGreaterThanMax(key, intVal, validation.MaxValue))
              ELSE r1
    IN  IF parsed.err THEN AddComplianceError(resource, MsgNotInt(key, value))
        ELSE IF Len(validation.AllowedValues) > 0 /\ ~Contains(validation.AllowedValues, value)
        THEN AddComplianceError(r2, MsgNotAllowed(key, value, validation.AllowedValues))
        ELSE r2

validateTagValue(resource, key, validation) ==
    IF ~HasTag(resource, key) THEN resource
    ELSE CASE validation.Type = TagTypeString ->
                  validateString(resource, key, Tags(resource)[key], validation)
           [] validation.Type = TagTypeBool ->
                  validateBool(resource, key, Tags(resource)[key])
           [] validation.Type = TagTypeInt ->
                  validateInt(resource, key, Tags(resource)[key], validation)
           [] OTHER -> resource

\* The range over the validations map visits its keys in an order the
\* runtime chooses: order is that order, a sequence of the map's keys.
RECURSIVE validateTagValuesFrom(_, _, _, _)
\* A range over the validations that ends at the first key that records an error.
validateTagValuesUntilError(resource, validations, order, i) ==
    IF i > Len(order) THEN resource
    ELSE LET checked == validateTagValue(resource, order[i], validations[order[i]])
         IN  IF checked # resource THEN checked
             ELSE validateTagValuesFrom(checked, validations, order, i + 1)

validateTagValuesFrom(resource, validations, order, i) ==
    IF i > Len(order) THEN resource
    ELSE validateTagValuesFrom(validateTagValue(resource, order[i], validations[order[i]]),
                               validations, order, i + 1)

validateTagValues(resource, validations, order) ==
    validateTagValuesFrom(resource, validations, order, 1)

\* The orders in which a range over a map with this key set can run.
RangeOrders(keys) ==
    {o \in [1..Cardinality(keys) -> keys] : \A i, j \in 1..Cardinality(keys) : i # j => o[i] # o[j]}

RECURSIVE evaluateCondition(_, _)
RECURSIVE evaluateAnd(_, _, _)
RECURSIVE evaluateOr(_, _, _)
\* Mutant: an absent key makes NotEquals false, as it makes Equals false.
evaluateNotEqualsAbsentFalse(resource, notEquals) ==
    /\ HasTag(resource, notEquals.Key)
    /\ Tags(resource)[notEquals.Key] # FormatV(notEquals.Value)

\* The NotEquals branch: an absent key is not equal.
evaluateNotEquals(resource, notEquals) ==
    \/ ~HasTag(resource, notEquals.Key)
    \/ Tags(resource)[notEquals.Key] # FormatV(notEquals.Value)

\* Mutant: the And loop answers with its first sub-condition.
evaluateAndFirstOnly(resource, list, i) == evaluateCondition(resource, list[1])

\* The And loop: the first false sub-condition ends it with false.
evaluateAnd(resource, list, i) ==
    IF i > Len(list) THEN TRUE
    ELSE IF ~evaluateCondition(resource, list[i]) THEN FALSE
    ELSE evaluateAnd(resource, list, i + 1)

\* The Or loop: the first true sub-condition ends it with true.
evaluateOr(resource, list, i) ==
    IF i > Len(list) THEN FALSE
    ELSE IF evaluateCondition(resource, list[i]) THEN TRUE
    ELSE evaluateOr(resource, list, i + 1)

\* A nil condition is Nil; the operators are tried in the order of the code.
evaluateCondition(resource, condition) ==
    IF condition = Nil THEN FALSE
    ELSE IF condition.Exists # Nil THEN HasTag(resource, condition.Exists.Key)
    ELSE IF condition.Equals # Nil
         THEN /\ HasTag(resource, condition.Equals.Key)
              /\ Tags(resource)[condition.Equals.Key] = FormatV(condition.Equals.Value)
    ELSE IF condition.NotEquals # Nil THEN evaluateNotEquals(resource, condition.NotEquals)
    ELSE IF condition.Contains # Nil
         THEN /\ HasTag(resource, condition.Contains.Key)
              /\ StringsContains(Tags(resource)[condition.Contains.Key], condition.Contains.Value)
    ELSE IF condition.GreaterThan # Nil
         THEN /\ HasTag(resource, condition.GreaterThan.Key)
              /\ ~ParseFloat(Tags(resource)[condition.GreaterThan.Key]).err
              /\ ParseFloat(Tags(resource)[condition.GreaterThan.Key]).val
                     > condition.GreaterThan.Value
    ELSE IF condition.LessThan # Nil
         THEN /\ HasTag(resource, condition.LessThan.Key)
              /\ ~ParseFloat(Tags(resource)[condition.LessThan.Key]).err
              /\ ParseFloat(Tags(resource)[condition.LessThan.Key]).val
                     < condition.LessThan.Value
    ELSE IF Len(condition.And) > 0 THEN evaluateAnd(resource, condition.And, 1)
    ELSE IF Len(condition.Or) > 0 THEN evaluateOr(resource, condition.Or, 1)
    ELSE FALSE

RECURSIVE mustContainKeysFrom(_, _, _)
mustContainKeysFrom(resource, keys, i) ==
    IF i > Len(keys) THEN resource
    ELSE mustContainKeysFrom(
             IF ~HasTag(resource, keys[i])
             THEN AddComplianceError(resource, MsgMissingRequired(keys[i]))
             ELSE resource,
             keys, i + 1)

RECURSIVE shouldContainKeysFrom(_, _, _)
shouldContainKeysFrom(resource, keys, i) ==
    IF i > Len(keys) THEN resource
    ELSE shouldContainKeysFrom(
             IF ~HasTag(resource, keys[i])
             THEN AddComplianceWarning(resource, MsgMissingRecommended(keys[i]))
             ELSE resource,
             keys, i + 1)

\* Mutant: the literal Error is recorded only when no required key is missing.
applyActionErrorUnlessMissing(resource, action) ==
    IF action = Nil THEN resource
    ELSE LET r1 == mustContainKeysFrom(resource, action.MustContainKeys, 1)
             r2 == shouldContainKeysFrom(r1, action.ShouldContainKeys, 1)
             r3 == IF action.Error # "" /\ r1 = resource
                   THEN AddComplianceError(r2, MsgLiteral(action.Error)) ELSE r2
         IN  IF action.Warn # "" THEN AddComplianceWarning(r3, MsgLiteral(action.Warn)) ELSE r3

\* A literal Error or Warn is an atomic string, "" when it is not set.
applyAction(resource, action) ==
    IF action = Nil THEN resource
    ELSE LET r1 == mustContainKeysFrom(resource, action.MustContainKeys, 1)
             r2 == shouldContainKeysFrom(r1, action.ShouldContainKeys, 1)
             r3 == IF action.Error # "" THEN AddComplianceError(r2, MsgLiteral(action.Error)) ELSE r2
         IN  IF action.Warn # "" THEN AddComplianceWarning(r3, MsgLiteral(action.Warn)) ELSE r3

RECURSIVE applyRulesFrom(_, _, _)
\* A loop over the rules that ends at the first rule whose condition holds.
applyRulesFirstMatch(resource, rules, i) ==
    IF i > Len(rules) THEN resource
    ELSE IF evaluateCondition(resource, rules[i].When)
         THEN applyAction(resource, rules[i].Then)
         ELSE applyRulesFrom(resource, rules, i + 1)

applyRulesFrom(resource, rules, i) ==
    IF i > Len(rules) THEN resource
    ELSE applyRulesFrom(
             IF evaluateCondition(resource, rules[i].When)
             THEN applyAction(resource, rules[i].Then)
             ELSE resource,
             rules, i + 1)

applyRules(resource, rules) == applyRulesFrom(resource, rules, 1)

\* Validate mutates the resource: its value here is the resource afterwards.
Validate(resource, policy, order) ==
    applyRules(validateTagValues(validateMandatoryKeys(resource, policy.MandatoryKeys),
                                 policy.Validations, order),
               policy.Rules)

\* ValidateAll: the resources after validation and the two counts.
\* orders[i] is the order of the validations range for resources[i].
RECURSIVE ValidateAllFrom(_, _, _, _, _)
\* Mutant: a resource counts as compliant when this call added no error to it.
ValidateAllFromNewErrorsOnly(resources, policy, orders, i, acc) ==
    IF i > Len(resources) THEN acc
    ELSE LET r  == Validate(resources[i], policy, orders[i])
             ok == Len(r.Errors) = Len(resources[i].Errors)
         IN  ValidateAllFrom(resources, policy, orders, i + 1,
                 [resources    |-> Append(acc.resources, r),
                  compliant    |-> IF ok THEN acc.compliant + 1 ELSE acc.compliant,
                  nonCompliant |-> IF ok THEN acc.nonCompliant ELSE acc.nonCompliant + 1])

ValidateAllFrom(resources, policy, orders, i, acc) ==
    IF i > Len(resources) THEN acc
    ELSE LET r == Validate(resources[i], policy, orders[i])
         IN  ValidateAllFrom(resources, policy, orders, i + 1,
                 [resources    |-> Append(acc.resources, r),
                  compliant    |-> IF IsCompliant(r) THEN acc.compliant + 1 ELSE acc.compliant,
                  nonCompliant |-> IF IsCompliant(r) THEN acc.nonCompliant
                                   ELSE acc.nonCompliant + 1])

ValidateAll(resources, policy, orders) ==
    ValidateAllFrom(resources, policy, orders, 1,
                    [resources |-> <<>>, compliant |-> 0, nonCompliant |-> 0])

(***************************************************************************)
(* The orchestrator: Patrol.Run (pkg/patrol).                              *)
(*                                                                         *)
(* Definitions are numbered 1..definitions in input order; the worker of   *)
(* definition d is goroutine d.  The goroutines of one Run are the main    *)
(* goroutine (pcMain), the goroutine that waits on the WaitGroup and       *)
(* closes done (pcWaiter) and the workers (pcWorker).  Workers keep        *)
(* running after Run has returned.                                         *)
(***************************************************************************)
VARIABLES definitions, options, ctxDone, pcMain, idx, wgCounter, pcWaiter, done,
          semaphore, errorCh, resultsMutex, results, pcWorker, result, appendBuf,
          fetched, validateCalls, ret, panicked, preCancelled

VARIABLES resource, calls, lastCall

\* A direct use of the rule evaluation engine: the resources it is given and
\* the call made on them.
VARIABLES subjects, rulerCall

\* A use of the policy parser: the policy document and what the parser returned.
VARIABLES document, parseResult

\* A use of Patrol.Summary: the results it is given and the summary it returned.
VARIABLES summaryInput, summary

runVars == <<definitions, options, ctxDone, pcMain, idx, wgCounter, pcWaiter, done,
             semaphore, errorCh, resultsMutex, results, pcWorker, result, appendBuf,
             fetched, validateCalls, ret, panicked, preCancelled>>

resourceVars == <<resource, calls, lastCall>>

rulerVars == <<subjects, rulerCall>>

parserVars == <<document, parseResult>>

summaryVars == <<summaryInput, summary>>

vars == <<runVars, resourceVars, rulerVars, parserVars, summaryVars>>

otherThanRun == <<resourceVars, rulerVars, parserVars, summaryVars>>

otherThanResource == <<runVars, rulerVars, parserVars, summaryVars>>

otherThanRuler == <<runVars, resourceVars, parserVars, summaryVars>>

otherThanParser == <<runVars, resourceVars, rulerVars, summaryVars>>

otherThanSummary == <<runVars, resourceVars, rulerVars, parserVars>>

Defs == 1..MaxDefs

\* Errors.
NoError == [kind |-> "nil"]

Canceled == [kind |-> "context.Canceled"]

FinderError == [kind |-> "finder"]

\* fmt.Errorf("error finding resources for %s.%s: %w", ...)
WrapFindError(def, err) == [kind |-> "error finding resources", def |-> def, cause |-> err]

\* Slices, where the code tells a nil slice from an empty one.
NilSlice == [nil |-> TRUE, items |-> <<>>]

Slice(items) == [nil |-> FALSE, items |-> items]

\* Result{Definition: def}
NewResult(def) ==
    [Definition |-> def, Resources |-> NilSlice, CompliantCount |-> 0,
     NonCompliantCount |-> 0, Error |-> NoError]

\* The tag policy of every definition of a run, and what the finder can return.
OwnerTag == [k \in {"owner"} |-> <<"a">>]

RunPolicy == TagPolicy(<<"owner">>, EmptyMap, <<>>)

\* A search without hits returns the nil slice.
FinderBatches == {NilSlice, Slice(<<NewResource(OwnerTag), NewResource(EmptyMap)>>)}

NotFetched == [returned |-> FALSE, resources |-> NilSlice, err |-> NoError]

Fetched(resources, err) == [returned |-> TRUE, resources |-> resources, err |-> err]

\* No resource calls are made in a run of the orchestrator.
ResourceIdle == resource = NewResource(EmptyMap) /\ calls = 0 /\ lastCall = "none"

\* No call has been made on the rule evaluation engine.
NoCall == [op |-> "none"]

RulerIdle == subjects = <<>> /\ rulerCall = NoCall

\* No policy has been handed to the parser.
NotParsed == [op |-> "none"]

ParserIdle == document = Nil /\ parseResult = NotParsed

\* Summary has not been called.
NoSummary == [op |-> "none"]

SummaryIdle == summaryInput = <<>> /\ summary = NoSummary

InitRun ==
    /\ definitions \in 0..MaxDefs
    /\ options \in [ConcurrentWorkers : 0..MaxWorkers, StopOnError : BOOLEAN]
    /\ ctxDone \in BOOLEAN
    /\ preCancelled = ctxDone
    /\ pcMain = IF definitions = 0 THEN "final" ELSE "errcheck"
    /\ idx = 1
    /\ wgCounter = 0
    /\ pcWaiter = "wait"
    /\ done = FALSE
    /\ semaphore = 0
    /\ errorCh = <<>>
    /\ resultsMutex = 0
    /\ results = <<>>
    /\ pcWorker = [d \in Defs |-> "pending"]
    /\ result = [d \in Defs |-> NewResult(d)]
    /\ appendBuf = [d \in Defs |-> <<>>]
    /\ fetched = [d \in Defs |-> NotFetched]
    /\ validateCalls = [d \in Defs |-> 0]
    /\ ret = [results |-> <<>>, err |-> NoError]
    /\ panicked = FALSE
    /\ ResourceIdle
    /\ RulerIdle
    /\ ParserIdle
    /\ SummaryIdle

\* return rs, err
Return(rs, err) ==
    /\ pcMain' = "returned"
    /\ ret' = [results |-> rs, err |-> err]

\* The caller cancels the context while Run is in progress.
Cancel ==
    /\ ~panicked
    /\ pcMain # "returned"
    /\ ~ctxDone
    /\ ctxDone' = TRUE
    /\ UNCHANGED <<definitions, options, pcMain, idx, wgCounter, pcWaiter, done, semaphore,
                   errorCh, resultsMutex, results, pcWorker, result, appendBuf, fetched,
                   validateCalls, ret, panicked, preCancelled>>
    /\ UNCHANGED otherThanRun

\* select { case err := <-errorCh: if StopOnError { return results, err }; default: }
MainErrCheck ==
    /\ ~panicked
    /\ pcMain = "errcheck"
    /\ IF Len(errorCh) > 0
       THEN /\ errorCh' = Tail(errorCh)
            /\ IF options.StopOnError
               THEN Return(results, Head(errorCh))
               ELSE pcMain' = "ctxcheck" /\ UNCHANGED ret
       ELSE /\ pcMain' = "ctxcheck"
            /\ UNCHANGED <<errorCh, ret>>
    /\ UNCHANGED <<definitions, options, ctxDone, idx, wgCounter, pcWaiter, done, semaphore,
                   resultsMutex, results, pcWorker, result, appendBuf, fetched,
                   validateCalls, panicked, preCancelled>>
    /\ UNCHANGED otherThanRun

\* select { case <-ctx.Done(): return results, ctx.Err(); default: }
MainCtxCheck ==
    /\ ~panicked
    /\ pcMain = "ctxcheck"
    /\ IF ctxDone
       THEN Return(results, Canceled)
       ELSE pcMain' = "add" /\ UNCHANGED ret
    /\ UNCHANGED <<definitions, options, ctxDone, idx, wgCounter, pcWaiter, done, semaphore,
                   errorCh, resultsMutex, results, pcWorker, result, appendBuf, fetched,
                   validateCalls, panicked, preCancelled>>
    /\ UNCHANGED otherThanRun

\* wg.Add(1)
MainWgAdd ==
    /\ ~panicked
    /\ pcMain = "add"
    /\ wgCounter' = wgCounter + 1
    /\ pcMain' = "acquire"
    /\ UNCHANGED <<definitions, options, ctxDone, idx, pcWaiter, done, semaphore,
                   errorCh, resultsMutex, results, pcWorker, result, appendBuf, fetched,
                   validateCalls, ret, panicked, preCancelled>>
    /\ UNCHANGED otherThanRun

\* Mutant: a send that never finds the buffer full.
SemaphoreHasRoomUnbounded(sem, capacity) == sem >= 0

\* A send on the semaphore channel proceeds while its buffer has room.
SemaphoreHasRoom(sem, capacity) == sem < capacity

\* semaphore <- struct{}{}; go func(def) {...}(definition), and the loop's
\* step to the next definition.  The new worker starts in FindResources.
MainDispatch ==
    /\ ~panicked
    /\ pcMain = "acquire"
    /\ SemaphoreHasRoom(semaphore, options.ConcurrentWorkers)
    /\ semaphore' = semaphore + 1
    /\ pcWorker' = [pcWorker EXCEPT ![idx] = "fetching"]
    /\ idx' = idx + 1
    /\ pcMain' = IF idx + 1 > definitions THEN "final" ELSE "errcheck"
    /\ UNCHANGED <<definitions, options, ctxDone, wgCounter, pcWaiter, done,
                   errorCh, resultsMutex, results, result, appendBuf, fetched,
                   validateCalls, ret, panicked, preCancelled>>
    /\ UNCHANGED otherThanRun

\* The final select: Go picks any one of the cases that are ready.
MainFinalDone ==
    /\ ~panicked
    /\ pcMain = "final"
    /\ done
    /\ Return(results, NoError)
    /\ UNCHANGED <<definitions, options, ctxDone, idx, wgCounter, pcWaiter, done, semaphore,
                   errorCh, resultsMutex, results, pcWorker, result, appendBuf, fetched,
                   validateCalls, panicked, preCancelled>>
    /\ UNCHANGED otherThanRun

\* Mutant: the cancellation case is taken only once the workers are done.
FinalCtxReadyWhenDone == ctxDone /\ done

\* case <-ctx.Done() is ready once the context is cancelled.
FinalCtxReady == ctxDone

MainFinalCtx ==
    /\ ~panicked
    /\ pcMain = "final"
    /\ FinalCtxReady
    /\ Return(results, Canceled)
    /\ UNCHANGED <<definitions, options, ctxDone, idx, wgCounter, pcWaiter, done, semaphore,
                   errorCh, resultsMutex, results, pcWorker, result, appendBuf, fetched,
                   validateCalls, panicked, preCancelled>>
    /\ UNCHANGED otherThanRun

MainFinalErr ==
    /\ ~panicked
    /\ pcMain = "final"
    /\ Len(errorCh) > 0
    /\ errorCh' = Tail(errorCh)
    /\ Return(results, Head(errorCh))
    /\ UNCHANGED <<definitions, options, ctxDone, idx, wgCounter, pcWaiter, done, semaphore,
                   resultsMutex, results, pcWorker, result, appendBuf, fetched,
                   validateCalls, panicked, preCancelled>>
    /\ UNCHANGED otherThanRun

\* The goroutine started first: wg.Wait(); close(done).  Wait returns at once
\* when the counter is zero and blocks otherwise; the Done that brings the
\* counter to zero wakes it, and a woken Wait that finds the counter raised
\* again panics ("WaitGroup is reused before previous Wait has returned").
WaiterWait ==
    /\ ~panicked
    /\ pcWaiter = "wait"
    /\ pcWaiter' = IF wgCounter = 0 THEN "close" ELSE "blocked"
    /\ UNCHANGED <<definitions, options, ctxDone, pcMain, idx, wgCounter, done, semaphore,
                   errorCh, resultsMutex, results, pcWorker, result, appendBuf, fetched,
                   validateCalls, ret, panicked, preCancelled>>
    /\ UNCHANGED otherThanRun

WaiterResume ==
    /\ ~panicked
    /\ pcWaiter = "woken"
    /\ IF wgCounter # 0
       THEN panicked' = TRUE /\ UNCHANGED pcWaiter
       ELSE pcWaiter' = "close" /\ UNCHANGED panicked
    /\ UNCHANGED <<definitions, options, ctxDone, pcMain, idx, wgCounter, done, semaphore,
                   errorCh, resultsMutex, results, pcWorker, result, appendBuf, fetched,
                   validateCalls, ret, preCancelled>>
    /\ UNCHANGED otherThanRun

WaiterClose ==
    /\ ~panicked
    /\ pcWaiter = "close"
    /\ done' = TRUE
    /\ pcWaiter' = "exit"
    /\ UNCHANGED <<definitions, options, ctxDone, pcMain, idx, wgCounter, semaphore,
                   errorCh, resultsMutex, results, pcWorker, result, appendBuf, fetched,
                   validateCalls, ret, panicked, preCancelled>>
    /\ UNCHANGED otherThanRun

\* FindResources returns: resources and no error, or no resources and an error.
FinderOutcomes ==
    {Fetched(b, NoError) : b \in FinderBatches} \cup {Fetched(NilSlice, FinderError)}

\* Mutant: the error of FindResources is not looked at.
FetchFailedIgnored(err) == FALSE

\* if err != nil
FetchFailed(err) == err # NoError

\* resources, err := FindResources(...); if err != nil { result.Error = ... }
WorkerFetchReturn(d) ==
    /\ ~panicked
    /\ pcWorker[d] = "fetching"
    /\ \E out \in FinderOutcomes :
          /\ fetched' = [fetched EXCEPT ![d] = out]
          /\ IF FetchFailed(out.err)
             THEN /\ result' = [result EXCEPT ![d].Error = WrapFindError(d, out.err)]
                  /\ pcWorker' = [pcWorker EXCEPT ![d] = "lock"]
             ELSE /\ pcWorker' = [pcWorker EXCEPT ![d] = "validating"]
                  /\ UNCHANGED result
    /\ UNCHANGED <<definitions, options, ctxDone, pcMain, idx, wgCounter, pcWaiter, done,
                   semaphore, errorCh, resultsMutex, results, appendBuf,
                   validateCalls, ret, panicked, preCancelled>>
    /\ UNCHANGED otherThanRun

\* compliant, nonCompliant := p.Ruler.ValidateAll(resources, def.TagPolicy), and
\* the three assignments to result.  The resources are validated in place.
WorkerValidateAll(d) ==
    /\ ~panicked
    /\ pcWorker[d] = "validating"
    /\ LET items == fetched[d].resources.items
           v == ValidateAll(items, RunPolicy, [i \in 1..Len(items) |-> <<>>])
       IN  result' = [result EXCEPT
                         ![d].Resources = [fetched[d].resources EXCEPT !.items = v.resources],
                         ![d].CompliantCount = v.compliant,
                         ![d].NonCompliantCount = v.nonCompliant]
    /\ validateCalls' = [validateCalls EXCEPT ![d] = @ + 1]
    /\ pcWorker' = [pcWorker EXCEPT ![d] = "lock"]
    /\ UNCHANGED <<definitions, options, ctxDone, pcMain, idx, wgCounter, pcWaiter, done,
                   semaphore, errorCh, resultsMutex, results, appendBuf, fetched,
                   ret, panicked, preCancelled>>
    /\ UNCHANGED otherThanRun

\* Mutant: Lock does not wait for the holder.
MutexFreeAlways(mutex) == mutex >= 0

\* A mutex can be locked when no goroutine holds it.
MutexFree(mutex) == mutex = 0

\* resultsMutex.Lock(), and the first half of results = append(results, result):
\* append reads the slice.  No other goroutine's step comes between the two
\* that could tell them apart.
WorkerLock(d) ==
    /\ ~panicked
    /\ pcWorker[d] = "lock"
    /\ MutexFree(resultsMutex)
    /\ resultsMutex' = d
    /\ appendBuf' = [appendBuf EXCEPT ![d] = results]
    /\ pcWorker' = [pcWorker EXCEPT ![d] = "append"]
    /\ UNCHANGED <<definitions, options, ctxDone, pcMain, idx, wgCounter, pcWaiter, done,
                   semaphore, errorCh, results, result, fetched,
                   validateCalls, ret, panicked, preCancelled>>
    /\ UNCHANGED otherThanRun

\* Mutant: the error is offered whatever StopOnError says.
SendsErrorAlways(err, stopOnError) == err # NoError

\* The worker offers its error to errorCh on the failure path under StopOnError.
SendsError(err, stopOnError) == err # NoError /\ stopOnError

\* The second half of the append, the assignment that stores the extended
\* slice, and resultsMutex.Unlock(); then, on the failure path,
\* if p.Options.StopOnError {...}
WorkerAppend(d) ==
    /\ ~panicked
    /\ pcWorker[d] = "append"
    /\ results' = Append(appendBuf[d], result[d])
    /\ appendBuf' = [appendBuf EXCEPT ![d] = <<>>]
    /\ resultsMutex' = 0
    /\ pcWorker' = [pcWorker EXCEPT ![d] =
                       IF SendsError(result[d].Error, options.StopOnError)
                       THEN "errsend" ELSE "release"]
    /\ UNCHANGED <<definitions, options, ctxDone, pcMain, idx, wgCounter, pcWaiter, done,
                   semaphore, errorCh, result, fetched,
                   validateCalls, ret, panicked, preCancelled>>
    /\ UNCHANGED otherThanRun

\* select { case errorCh <- result.Error: default: }   (errorCh has capacity 1)
WorkerErrSend(d) ==
    /\ ~panicked
    /\ pcWorker[d] = "errsend"
    /\ errorCh' = IF Len(errorCh) < 1 THEN Append(errorCh, result[d].Error) ELSE errorCh
    /\ pcWorker' = [pcWorker EXCEPT ![d] = "release"]
    /\ UNCHANGED <<definitions, options, ctxDone, pcMain, idx, wgCounter, pcWaiter, done,
                   semaphore, resultsMutex, results, result, appendBuf, fetched,
                   validateCalls, ret, panicked, preCancelled>>
    /\ UNCHANGED otherThanRun

\* defer func() { <-semaphore }()   (runs first of the two deferred calls)
WorkerRelease(d) ==
    /\ ~panicked
    /\ pcWorker[d] = "release"
    /\ semaphore > 0
    /\ semaphore' = semaphore - 1
    /\ pcWorker' = [pcWorker EXCEPT ![d] = "wgdone"]
    /\ UNCHANGED <<definitions, options, ctxDone, pcMain, idx, wgCounter, pcWaiter, done,
                   errorCh, resultsMutex, results, result, appendBuf, fetched,
                   validateCalls, ret, panicked, preCancelled>>
    /\ UNCHANGED otherThanRun

\* defer wg.Done()
WorkerDone(d) ==
    /\ ~panicked
    /\ pcWorker[d] = "wgdone"
    /\ wgCounter' = wgCounter - 1
    /\ pcWaiter' = IF wgCounter - 1 = 0 /\ pcWaiter = "blocked" THEN "woken" ELSE pcWaiter
    /\ pcWorker' = [pcWorker EXCEPT ![d] = "finished"]
    /\ UNCHANGED <<definitions, options, ctxDone, pcMain, idx, done,
                   semaphore, errorCh, resultsMutex, results, result, appendBuf, fetched,
                   validateCalls, ret, panicked, preCancelled>>
    /\ UNCHANGED otherThanRun

NextRun ==
    \/ Cancel
    \/ MainErrCheck
    \/ MainCtxCheck
    \/ MainWgAdd
    \/ MainDispatch
    \/ MainFinalDone
    \/ MainFinalCtx
    \/ MainFinalErr
    \/ WaiterWait
    \/ WaiterResume
    \/ WaiterClose
    \/ \E d \in Defs : WorkerFetchReturn(d)
    \/ \E d \in Defs : WorkerValidateAll(d)
    \/ \E d \in Defs : WorkerLock(d)
    \/ \E d \in Defs : WorkerAppend(d)
    \/ \E d \in Defs : WorkerErrSend(d)
    \/ \E d \in Defs : WorkerRelease(d)
    \/ \E d \in Defs : WorkerDone(d)

SpecRun == InitRun /\ [][NextRun]_vars

\* The steps of the goroutines of a run: the caller of Run, the goroutine that
\* waits for the workers, and one worker for each definition.
MainStep ==
    \/ MainErrCheck
    \/ MainCtxCheck
    \/ MainWgAdd
    \/ MainDispatch
    \/ MainFinalDone
    \/ MainFinalCtx
    \/ MainFinalErr

WaiterStep ==
    \/ WaiterWait
    \/ WaiterResume
    \/ WaiterClose

WorkerStep(d) ==
    \/ WorkerFetchReturn(d)
    \/ WorkerValidateAll(d)
    \/ WorkerLock(d)
    \/ WorkerAppend(d)
    \/ WorkerErrSend(d)
    \/ WorkerRelease(d)
    \/ WorkerDone(d)

\* The Go scheduler runs every goroutine that can take a step, and every
\* FindResources call that was started returns.  The caller is not required
\* to cancel the context.
SpecRunFair ==
    /\ SpecRun
    /\ WF_vars(MainStep)
    /\ WF_vars(WaiterStep)
    /\ \A d \in Defs : WF_vars(WorkerStep(d))

(***************************************************************************)
(* A resource under calls: AddComplianceError, AddComplianceWarning and    *)
(* Validate applied to one resource, in any order.                         *)
(***************************************************************************)
Prod == <<"p", "r", "o", "d">>

Dev == <<"d", "e", "v">>

True == <<"t", "r", "u", "e">>

SampleTags ==
    {EmptyMap,
     [k \in {"environment"} |-> Prod],
     [k \in {"environment", "owner"} |-> IF k = "environment" THEN Dev ELSE <<"a">>],
     [k \in {"environment", "critical", "ttl"} |->
         IF k = "environment" THEN Prod ELSE IF k = "critical" THEN True ELSE <<"1", "5", "0">>],
     [k \in {"owner", "ttl"} |-> IF k = "owner" THEN <<"a">> ELSE <<"3", "0">>],
     [k \in {"critical", "ttl"} |-> IF k = "critical" THEN <<"y", "e", "s">> ELSE <<"x">>]}

SampleValidations ==
    [k \in {"environment", "critical", "ttl"} |->
        IF k = "environment" THEN Validation(TagTypeString, <<Prod, Dev>>, NoRegex, 0, 0)
        ELSE IF k = "critical" THEN Validation(TagTypeBool, <<>>, NoRegex, 0, 0)
        ELSE Validation(TagTypeInt, <<>>, NoRegex, 1, 90)]

SamplePolicies ==
    {TagPolicy(<<>>, EmptyMap, <<>>),
     TagPolicy(<<"environment", "owner">>, SampleValidations,
               <<Rule(EqualsCondition("environment", AnyString(Prod)),
                      Action(<<"backup-policy">>, <<"contact">>, "",
                             "Production resources need backup policy"))>>),
     TagPolicy(<<>>, EmptyMap,
               <<Rule(NotEqualsCondition("environment", AnyString(Prod)),
                      Action(<<>>, <<"owner">>, "Not a production resource", ""))>>)}

SampleMessages == {MsgLiteral("Error 1"), MsgLiteral("Warning 1")}

\* No orchestrator runs while a resource is exercised.
RunIdle ==
    /\ definitions = 0
    /\ options = [ConcurrentWorkers |-> 0, StopOnError |-> FALSE]
    /\ ctxDone = FALSE
    /\ preCancelled = FALSE
    /\ pcMain = "idle"
    /\ idx = 1
    /\ wgCounter = 0
    /\ pcWaiter = "idle"
    /\ done = FALSE
    /\ semaphore = 0
    /\ errorCh = <<>>
    /\ resultsMutex = 0
    /\ results = <<>>
    /\ pcWorker = [d \in Defs |-> "pending"]
    /\ result = [d \in Defs |-> NewResult(d)]
    /\ appendBuf = [d \in Defs |-> <<>>]
    /\ fetched = [d \in Defs |-> NotFetched]
    /\ validateCalls = [d \in Defs |-> 0]
    /\ ret = [results |-> <<>>, err |-> NoError]
    /\ panicked = FALSE

InitResource ==
    /\ resource \in {NewResource(t) : t \in SampleTags}
    /\ calls = 0
    /\ lastCall = "none"
    /\ RunIdle
    /\ RulerIdle
    /\ ParserIdle
    /\ SummaryIdle

CallAddComplianceError ==
    /\ calls < MaxCalls
    /\ \E msg \in SampleMessages : resource' = AddComplianceError(resource, msg)
    /\ calls' = calls + 1
    /\ lastCall' = "AddComplianceError"
    /\ UNCHANGED otherThanResource

CallAddComplianceWarning ==
    /\ calls < MaxCalls
    /\ \E msg \in SampleMessages : resource' = AddComplianceWarning(resource, msg)
    /\ calls' = calls + 1
    /\ lastCall' = "AddComplianceWarning"
    /\ UNCHANGED otherThanResource

CallValidate ==
    /\ calls < MaxCalls
    /\ \E policy \in SamplePolicies :
          \E order \in RangeOrders(DOMAIN policy.Validations) :
             resource' = Validate(resource, policy, order)
    /\ calls' = calls + 1
    /\ lastCall' = "Validate"
    /\ UNCHANGED otherThanResource

NextResource ==
    \/ CallAddComplianceError
    \/ CallAddComplianceWarning
    \/ CallValidate

SpecResource == InitResource /\ [][NextResource]_vars

(***************************************************************************)
(* The rule evaluation engine used directly, as its tests use it: the      *)
(* resources and the arguments are drawn, then one method is applied.      *)
(***************************************************************************)
Qa == <<"q", "a">>

QaUpper == <<"Q", "A">>

Thirty == <<"t", "h", "i", "r", "t", "y">>

\* A tag map from a set of <<key, value>> pairs.
TagMap(pairs) ==
    [k \in {p[1] : p \in pairs} |-> (CHOOSE p \in pairs : p[1] = k)[2]]

RulerTags ==
    {EmptyMap,
     TagMap({<<"environment", Prod>>}),
     TagMap({<<"environment", Prod>>, <<"critical", True>>}),
     TagMap({<<"environment", Dev>>, <<"owner", <<>> >>, <<"ttl", <<"3", "0">> >>}),
     TagMap({<<"environment", Qa>>, <<"ttl", <<"1", "5", "0">> >>}),
     TagMap({<<"environment", QaUpper>>, <<"ttl", Thirty>>, <<"critical", <<"y", "e", "s">> >>}),
     TagMap({<<"owner", <<"a">> >>, <<"ttl", <<"-", "5">> >>}),
     TagMap({<<"cost-center", <<"7">> >>, <<"ttl", <<"0">> >>, <<"critical", True>>})}

\* Resources as a finder returns them, and resources on which an earlier
\* call has recorded a finding.
FreshResources == {NewResource(t) : t \in RulerTags}

UsedResources ==
    {AddComplianceError(NewResource(EmptyMap), MsgLiteral("Error 1")),
     AddComplianceError(NewResource(TagMap({<<"environment", Prod>>})), MsgLiteral("Error 1")),
     AddComplianceWarning(NewResource(TagMap({<<"environment", Prod>>})), MsgLiteral("Warning 1"))}

RulerSubjects ==
    {<<>>} \cup {<<r>> : r \in FreshResources \cup UsedResources}
           \cup {<<r, s>> : r \in UsedResources,
                            s \in {NewResource(EmptyMap),
                                   NewResource(TagMap({<<"environment", Prod>>})),
                                   NewResource(TagMap({<<"environment", Prod>>,
                                                       <<"critical", True>>}))}}

\* The sequences without repetition over a set of keys.
KeyLists(keys) == UNION {RangeOrders(K) : K \in SUBSET keys}

RulerKeys == KeyLists({"environment", "owner", "cost-center"})

Lower == {"a", "d", "e", "o", "p", "q", "r", "v"}

IntValidations ==
    {Validation(TagTypeInt, allowed, NoRegex, min, max) :
        allowed \in {<<>>, << <<"3", "0">>, <<"1", "5", "0">> >>},
        min \in {0, 1, -3, 40}, max \in {0, 90, 20}}

StringValidations ==
    {Validation(TagTypeString, allowed, regex, 0, 0) :
        allowed \in {<<>>, <<Prod, Dev>>},
        regex \in {NoRegex, RegexClassPlus(Lower), RegexLiteral(<<"p", "r", "o">>), RegexBroken}}

RulerValidations ==
    {[k \in {"ttl"} |-> v] : v \in IntValidations}
        \cup {[k \in {"environment"} |-> v] : v \in StringValidations}
        \cup {EmptyMap, SampleValidations}

RulerAtoms ==
    {ExistsCondition("critical"),
     ExistsCondition("owner"),
     EqualsCondition("environment", AnyString(Prod)),
     EqualsCondition("ttl", AnyInt(30)),
     NotEqualsCondition("environment", AnyString(Prod)),
     NotEqualsCondition("ttl", AnyInt(30)),
     NotEqualsCondition("critical", AnyBool(TRUE)),
     ContainsCondition("environment", <<"r", "o">>),
     GreaterThanCondition("ttl", 100 * FloatScale),
     LessThanCondition("ttl", 0)}

\* Condition trees one, two and three levels deep.
RulerPairs ==
    {<<a, b>> : a \in {ExistsCondition("critical"), NotEqualsCondition("ttl", AnyInt(30))},
                b \in {EqualsCondition("environment", AnyString(Prod)), ExistsCondition("owner")}}

RulerLevel2 ==
    {AndCondition(p) : p \in RulerPairs} \cup {OrCondition(p) : p \in RulerPairs}
        \cup {AndCondition(<<EqualsCondition("environment", AnyString(Prod)),
                             ExistsCondition("critical")>>),
              OrCondition(<<ExistsCondition("owner")>>)}

RulerLevel3 ==
    {AndCondition(<<c, LessThanCondition("ttl", 100 * FloatScale)>>) : c \in RulerLevel2}
        \cup {OrCondition(<<GreaterThanCondition("ttl", 0), c,
                            AndCondition(<<c, ExistsCondition("cost-center")>>)>>) :
                 c \in RulerLevel2}

\* Conditions that break the one-operator rule: nil, no operator, two operators.
RulerIllFormed ==
    {Nil, EmptyCondition,
     [EmptyCondition EXCEPT !.Exists = [Key |-> "owner"],
                            !.NotEquals = [Key |-> "owner", Value |-> AnyString(Prod)]],
     AndCondition(<<EmptyCondition, ExistsCondition("owner")>>)}

RulerConditions == RulerAtoms \cup RulerLevel2 \cup RulerLevel3 \cup RulerIllFormed

RulerActions ==
    {Nil,
     Action(<<>>, <<>>, "", ""),
     Action(<<"backup-policy">>, <<>>, "", "Production resources need backup policy"),
     Action(<<"backup-policy", "owner">>, <<"contact", "environment">>,
            "Warning 1", "Error 1"),
     Action(<<>>, <<"owner">>, "Not a production resource", "")}

RulerRules ==
    {Rule(w, t) :
        w \in {EqualsCondition("environment", AnyString(Prod)),
               NotEqualsCondition("environment", AnyString(Prod)),
               AndCondition(<<EqualsCondition("environment", AnyString(Prod)),
                              ExistsCondition("critical")>>),
               Nil},
        t \in RulerActions}

RulerRuleLists == {<<>>} \cup {<<r>> : r \in RulerRules} \cup {<<r, s>> : r, s \in RulerRules}

BackupPolicy ==
    TagPolicy(<<"environment", "owner", "cost-center">>, EmptyMap,
              <<Rule(EqualsCondition("environment", AnyString(Prod)),
                     Action(<<"backup-policy">>, <<>>, "",
                            "Production resources need backup policy"))>>)

\* Policies with mandatory keys, validations and several rules, after the
\* rules of TestApplyRules/Multiple Rules.
ProductionRule ==
    Rule(EqualsCondition("environment", AnyString(Prod)),
         Action(<<"cost-center">>, <<>>, "", "Production resources must have cost-center"))

CriticalRule ==
    Rule(ExistsCondition("critical"),
         Action(<<"ttl", "contact">>, <<"contact">>, "Warning 1",
                "Temporary resources must have TTL"))

NonProductionRule ==
    Rule(NotEqualsCondition("environment", AnyString(Prod)),
         Action(<<>>, <<"owner">>, "Not a production resource", "Error 1"))

OrderedRuleLists ==
    {<<ProductionRule, CriticalRule>>, <<CriticalRule, ProductionRule>>,
     <<NonProductionRule, ProductionRule, CriticalRule>>,
     <<ProductionRule, NonProductionRule, CriticalRule>>}

OrderedPolicies ==
    {TagPolicy(<<"owner", "cost-center">>, SampleValidations, rules) :
        rules \in OrderedRuleLists}

RulerPolicies == SamplePolicies \cup {BackupPolicy} \cup OrderedPolicies

Call(op, i, arg, order, before, returned) ==
    [op |-> op, i |-> i, arg |-> arg, order |-> order, before |-> before, ret |-> returned]

InitRuler ==
    /\ subjects \in RulerSubjects
    /\ rulerCall = NoCall
    /\ RunIdle
    /\ ResourceIdle
    /\ ParserIdle
    /\ SummaryIdle

\* r.validateMandatoryKeys(subjects[i], keys)
RulerValidateMandatoryKeys ==
    /\ rulerCall = NoCall
    /\ \E i \in DOMAIN subjects, keys \in RulerKeys :
          /\ subjects' = [subjects EXCEPT ![i] = validateMandatoryKeys(@, keys)]
          /\ rulerCall' = Call("validateMandatoryKeys", i, keys, <<>>, subjects, Nil)
    /\ UNCHANGED otherThanRuler

\* r.validateTagValues(subjects[i], validations)
RulerValidateTagValues ==
    /\ rulerCall = NoCall
    /\ \E i \in DOMAIN subjects, validations \in RulerValidations :
          \E order \in RangeOrders(DOMAIN validations) :
             /\ subjects' = [subjects EXCEPT ![i] = validateTagValues(@, validations, order)]
             /\ rulerCall' = Call("validateTagValues", i, validations, order, subjects, Nil)
    /\ UNCHANGED otherThanRuler

\* r.evaluateCondition(subjects[i], condition)
RulerEvaluateCondition ==
    /\ rulerCall = NoCall
    /\ \E i \in DOMAIN subjects, condition \in RulerConditions :
          rulerCall' = Call("evaluateCondition", i, condition, <<>>, subjects,
                            evaluateCondition(subjects[i], condition))
    /\ UNCHANGED subjects
    /\ UNCHANGED otherThanRuler

\* r.applyRules(subjects[i], rules)
RulerApplyRules ==
    /\ rulerCall = NoCall
    /\ \E i \in DOMAIN subjects, rules \in RulerRuleLists :
          /\ subjects' = [subjects EXCEPT ![i] = applyRules(@, rules)]
          /\ rulerCall' = Call("applyRules", i, rules, <<>>, subjects, Nil)
    /\ UNCHANGED otherThanRuler

\* r.Validate(subjects[i], policy)
RulerValidate ==
    /\ rulerCall = NoCall
    /\ \E i \in DOMAIN subjects, policy \in RulerPolicies :
          \E order \in RangeOrders(DOMAIN policy.Validations) :
             /\ subjects' = [subjects EXCEPT ![i] = Validate(@, policy, order)]
             /\ rulerCall' = Call("Validate", i, policy, order, subjects, Nil)
    /\ UNCHANGED otherThanRuler

\* compliant, nonCompliant := r.ValidateAll(subjects, policy)
RulerValidateAll ==
    /\ rulerCall = NoCall
    /\ \E policy \in RulerPolicies :
          \E orders \in [DOMAIN subjects -> RangeOrders(DOMAIN policy.Validations)] :
             LET out == ValidateAll(subjects, policy, orders)
             IN  /\ subjects' = out.resources
                 /\ rulerCall' = Call("ValidateAll", 0, policy, orders, subjects,
                                      [compliant |-> out.compliant,
                                       nonCompliant |-> out.nonCompliant])
    /\ UNCHANGED otherThanRuler

NextRuler ==
    \/ RulerValidateMandatoryKeys
    \/ RulerValidateTagValues
    \/ RulerEvaluateCondition
    \/ RulerApplyRules
    \/ RulerValidate
    \/ RulerValidateAll

SpecRuler == InitRuler /\ [][NextRuler]_vars

(***************************************************************************)
(* The policy parser: DefaultParser (pkg/policy).                          *)
(*                                                                         *)
(* A nil slice or map field of a TagPolicy behaves in processResource like *)
(* an empty one (a range over it runs no iteration, a lookup finds         *)
(* nothing), so both are the empty sequence or map here; the pointers the  *)
(* code tests for nil (a ResourceConfig, its TagPolicy, a Blueprint, the   *)
(* Blueprints map) are Nil.  Blueprint names and extends references are    *)
(* sequences of characters.                                                *)
(***************************************************************************)
\* strings.TrimSpace, for the space character.
RECURSIVE TrimLeft(_)
TrimLeft(s) == IF s # <<>> /\ Head(s) = " " THEN TrimLeft(Tail(s)) ELSE s

RECURSIVE TrimRight(_)
TrimRight(s) ==
    IF s # <<>> /\ s[Len(s)] = " " THEN TrimRight(SubSeq(s, 1, Len(s) - 1)) ELSE s

TrimSpace(s) == TrimRight(TrimLeft(s))

\* strings.Split(s, sep) for a one-character separator; cur is the part being read.
RECURSIVE SplitFrom(_, _, _)
SplitFrom(s, sep, cur) ==
    IF s = <<>> THEN <<cur>>
    ELSE IF Head(s) = sep THEN <<cur>> \o SplitFrom(Tail(s), sep, <<>>)
    ELSE SplitFrom(Tail(s), sep, Append(cur, Head(s)))

Split(s, sep) == SplitFrom(s, sep, <<>>)

Policy(blueprints, resources) == [Blueprints |-> blueprints, Resources |-> resources]

Blueprint(tagPolicy) == [TagPolicy |-> tagPolicy]

ResourceConfig(tagPolicy, extends) == [TagPolicy |-> tagPolicy, Extends |-> extends]

ResourceDefinition(service, resourceType, tagPolicy) ==
    [Service |-> service, ResourceType |-> resourceType,
     MandatoryKeys |-> tagPolicy.MandatoryKeys, Validations |-> tagPolicy.Validations,
     Rules |-> tagPolicy.Rules]

\* The TagPolicy of a resource configuration once processResource has put an
\* empty one in the place of a nil one.
ownPolicy(resourceConfig) ==
    IF resourceConfig.TagPolicy = Nil THEN TagPolicy(<<>>, EmptyMap, <<>>)
    ELSE resourceConfig.TagPolicy

\* The blueprint an extends entry names: parts[1] of the trimmed reference,
\* looked up in config.Blueprints.  A reference without a dot has no parts[1]
\* (index out of range); a name that is not in the map gives a nil blueprint.
OutOfRange == [kind |-> "index out of range"]

blueprintOf(config, extendPath) ==
    LET parts == Split(TrimSpace(extendPath), ".")
    IN  IF Len(parts) < 2 THEN OutOfRange
        ELSE IF parts[2] \in DOMAIN config.Blueprints THEN config.Blueprints[parts[2]]
        ELSE Nil

\* The blueprints the loop over Extends visits, in the order of Extends; the
\* loop does not run when Extends is empty or config.Blueprints is nil.
extendedBlueprints(config, resourceConfig) ==
    IF Len(resourceConfig.Extends) > 0 /\ config.Blueprints # Nil
    THEN [n \in DOMAIN resourceConfig.Extends |-> blueprintOf(config, resourceConfig.Extends[n])]
    ELSE <<>>

\* The loop panics at parts[1] or at the first field read through a nil
\* blueprint or a blueprint without TagPolicy.
extendPanics(blueprints) ==
    \E n \in DOMAIN blueprints :
       \/ blueprints[n] = OutOfRange
       \/ blueprints[n] = Nil
       \/ blueprints[n].TagPolicy = Nil

SeqRange(s) == {s[n] : n \in DOMAIN s}

\* Mutant: the blueprints' keys are left out.
resourceKeysOwnOnly(config, resourceConfig) ==
    SeqRange(ownPolicy(resourceConfig).MandatoryKeys)

\* resourceKeys, a map[string]bool that holds only true values, as the set
\* of its keys: the configuration's own keys and every extended blueprint's.
resourceKeys(config, resourceConfig) ==
    LET blueprints == extendedBlueprints(config, resourceConfig)
    IN  SeqRange(ownPolicy(resourceConfig).MandatoryKeys)
           \cup UNION {SeqRange(blueprints[n].TagPolicy.MandatoryKeys) : n \in DOMAIN blueprints}

\* maps.Copy(dst, src)
MapsCopy(dst, src) ==
    [k \in DOMAIN dst \cup DOMAIN src |-> IF k \in DOMAIN src THEN src[k] ELSE dst[k]]

\* The validations of the blueprints from the n-th on are put into acc, except
\* under the keys the configuration defines itself.
RECURSIVE blueprintValidationsFrom(_, _, _, _)
\* A merge in which a blueprint does not replace what an earlier one defined.
blueprintValidationsFirstWins(blueprints, own, n, acc) ==
    IF n > Len(blueprints) THEN acc
    ELSE LET from == blueprints[n].TagPolicy.Validations
             kept == [k \in DOMAIN from \ (DOMAIN own \cup DOMAIN acc) |-> from[k]]
         IN  blueprintValidationsFrom(blueprints, own, n + 1, MapsCopy(acc, kept))

blueprintValidationsFrom(blueprints, own, n, acc) ==
    IF n > Len(blueprints) THEN acc
    ELSE LET from == blueprints[n].TagPolicy.Validations
             kept == [k \in DOMAIN from \ DOMAIN own |-> from[k]]
         IN  blueprintValidationsFrom(blueprints, own, n + 1, MapsCopy(acc, kept))

\* Mutant: a blueprint's validation replaces the configuration's own.
definitionValidationsBlueprintWins(config, resourceConfig) ==
    LET blueprints == extendedBlueprints(config, resourceConfig)
    IN  MapsCopy(ownPolicy(resourceConfig).Validations,
                 blueprintValidationsFrom(blueprints, EmptyMap, 1, EmptyMap))

\* definition.Validations: the blueprints' validations, then the own ones
\* copied over them.
definitionValidations(config, resourceConfig) ==
    LET blueprints == extendedBlueprints(config, resourceConfig)
        own        == ownPolicy(resourceConfig).Validations
    IN  MapsCopy(blueprintValidationsFrom(blueprints, own, 1, EmptyMap), own)

RECURSIVE blueprintRulesFrom(_, _)
blueprintRulesFrom(blueprints, n) ==
    IF n > Len(blueprints) THEN <<>>
    ELSE blueprints[n].TagPolicy.Rules \o blueprintRulesFrom(blueprints, n + 1)

\* Mutant: the configuration's own rules come first.
definitionRulesOwnFirst(config, resourceConfig) ==
    ownPolicy(resourceConfig).Rules
        \o blueprintRulesFrom(extendedBlueprints(config, resourceConfig), 1)

\* definition.Rules: every blueprint's rules appended in the order of
\* Extends, then the own rules.
definitionRules(config, resourceConfig) ==
    blueprintRulesFrom(extendedBlueprints(config, resourceConfig), 1)
        \o ownPolicy(resourceConfig).Rules

Panic == [panic |-> TRUE]

\* processResource; keyOrder is the order in which the range over resourceKeys
\* yields the keys that are appended to definition.MandatoryKeys.
processResource(config, service, resourceType, resourceConfig, keyOrder) ==
    IF resourceConfig = Nil
    THEN [panic |-> FALSE,
          definition |-> ResourceDefinition(service, resourceType,
                                            TagPolicy(<<>>, EmptyMap, <<>>))]
    ELSE IF extendPanics(extendedBlueprints(config, resourceConfig)) THEN Panic
    ELSE [panic |-> FALSE,
          definition |->
             ResourceDefinition(service, resourceType,
                 TagPolicy(keyOrder,
                           definitionValidations(config, resourceConfig),
                           definitionRules(config, resourceConfig)))]

\* The orders in which the range over resourceKeys can yield its keys.
KeyOrders(config, resourceConfig) ==
    IF resourceConfig = Nil \/ extendPanics(extendedBlueprints(config, resourceConfig))
    THEN {<<>>}
    ELSE RangeOrders(resourceKeys(config, resourceConfig))

\* One order of the range over resourceKeys for each visited pair, from the
\* n-th on.
RECURSIVE KeyOrdersFrom(_, _, _)
KeyOrdersFrom(config, visit, n) ==
    IF n > Len(visit) THEN {<<>>}
    ELSE {<<keyOrder>> \o rest :
             keyOrder \in KeyOrders(config, config.Resources[visit[n][1]][visit[n][2]]),
             rest \in KeyOrdersFrom(config, visit, n + 1)}

\* A nil map is ranged over like an empty one.
Ranged(map) == IF map = Nil THEN EmptyMap ELSE map

\* The <<service, resourceType>> pairs in an order the two nested ranges of
\* ProcessPolicy can visit them: services in the order serviceOrder, the
\* resource types of a service in the order typeOrders[service].
RECURSIVE visitFrom(_, _, _)
visitFrom(serviceOrder, typeOrders, n) ==
    IF n > Len(serviceOrder) THEN <<>>
    ELSE [m \in DOMAIN typeOrders[serviceOrder[n]] |->
             <<serviceOrder[n], typeOrders[serviceOrder[n]][m]>>]
            \o visitFrom(serviceOrder, typeOrders, n + 1)

VisitOrders(config) ==
    LET resources == Ranged(config.Resources)
    IN  {visitFrom(serviceOrder, typeOrders, 1) :
            serviceOrder \in RangeOrders(DOMAIN resources),
            typeOrders \in {f \in [DOMAIN resources ->
                                     UNION {RangeOrders(DOMAIN Ranged(resources[s])) :
                                               s \in DOMAIN resources}] :
                               \A s \in DOMAIN resources :
                                  f[s] \in RangeOrders(DOMAIN Ranged(resources[s]))}}

\* processResource replaces the nil TagPolicy of a configuration it is given.
withOwnPolicy(config, service, resourceType) ==
    LET resourceConfig == config.Resources[service][resourceType]
    IN  IF resourceConfig = Nil THEN config
        ELSE [config EXCEPT !.Resources[service][resourceType].TagPolicy =
                                ownPolicy(resourceConfig)]

\* ProcessPolicy from the n-th visited pair on; acc holds the definitions
\* appended so far and the policy as the calls have left it.
RECURSIVE ProcessPolicyFrom(_, _, _, _)
ProcessPolicyFrom(visit, keyOrders, n, acc) ==
    IF n > Len(visit) THEN acc
    ELSE LET service        == visit[n][1]
             resourceType   == visit[n][2]
             resourceConfig == acc.config.Resources[service][resourceType]
             out            == processResource(acc.config, service, resourceType,
                                               resourceConfig, keyOrders[n])
             config1        == withOwnPolicy(acc.config, service, resourceType)
         IN  IF out.panic
             THEN [panic |-> TRUE, config |-> config1, definitions |-> <<>>, err |-> NoError]
             ELSE ProcessPolicyFrom(visit, keyOrders, n + 1,
                      [panic |-> FALSE, config |-> config1,
                       definitions |-> Append(acc.definitions, out.definition),
                       err |-> NoError])

ProcessPolicy(policy, visit, keyOrders) ==
    ProcessPolicyFrom(visit, keyOrders, 1,
                      [panic |-> FALSE, config |-> policy, definitions |-> <<>>,
                       err |-> NoError])

(***************************************************************************)
(* Policy validation: ValidatePolicy (pkg/policy) and the validate tags of *)
(* the policy types (pkg/policy/types).                                    *)
(*                                                                         *)
(* validate.Struct walks the policy along the struct tags and collects     *)
(* every failure; it does not stop at the first.  A nil pointer is not     *)
(* entered: under `required` it is a failure, under `omitempty` or as an   *)
(* element reached by `dive` it is passed over.  The struct-level          *)
(* functions registered in init() run for every value of their type that   *)
(* is entered.  The failures are kept as a bag: their order follows the    *)
(* iteration order of the maps.                                            *)
(***************************************************************************)
\* One validation failure: the tag that failed and the field it failed on.
\* The text e.Translate(trans) gives a failure of a tag: the translations
\* registered by registerCustomTranslations and the validator's English ones.
Translate(tag) ==
    CASE tag = "extends_format" -> "'{0}' must be in the format 'blueprints.name'."
      [] tag = "valid_regex" -> "Field '{0}' must contain a valid Go regular expression."
      [] tag = "no_extras_for_bool" -> "Field '{0}' is not applicable when Type is 'bool'."
      [] tag = "only_int_supports_minmax" ->
            "Field '{0}' is only applicable when Type is 'int' (current type: '{1}')."
      [] tag = "allowedvalues_for_int_or_str_only" ->
            "Field '{0}' is only applicable when Type is 'int' or 'string' (current type: '{1}')."
      [] tag = "regex_for_str_only" ->
            "Field '{0}' is only applicable when Type is 'string' (current type: '{1}')."
      [] tag = "regex_xor_allowedvalues" -> "Cannot specify both Regex and AllowedValues."
      [] tag = "exactly_one_condition_type" ->
            "A Condition must specify exactly one operator (e.g., exists, equals, and, or)."
      [] tag = "blueprint_exists" ->
            "Blueprint '{0}' referenced in '{1}' does not exist in the 'blueprints' section."
      [] tag = "required" -> "{0} is a required field"
      [] tag = "min" -> "{0} must contain at least {1} item"
      [] tag = "oneof" -> "{0} must be one of [{1}]"
      [] tag = "gtecsfield" -> "{0} must be greater than or equal to {1}"

Report(tag, field) == SetToBag({[tag |-> tag, field |-> field, text |-> Translate(tag)]})

ReportIf(failed, tag, field) == IF failed THEN Report(tag, field) ELSE EmptyBag

\* The failures of all members of a sequence or map of bags.
RECURSIVE BagSum(_)
BagSum(bags) ==
    IF DOMAIN bags = {} THEN EmptyBag
    ELSE LET i == CHOOSE j \in DOMAIN bags : TRUE
         IN  bags[i] (+) BagSum([j \in DOMAIN bags \ {i} |-> bags[j]])

\* `dive,required` on a list of strings: every element must be non-empty.
diveRequired(list, empty, field) ==
    BagSum([n \in DOMAIN list |-> ReportIf(list[n] = empty, "required", field)])

BlueprintsPrefix == <<"b", "l", "u", "e", "p", "r", "i", "n", "t", "s">>

\* The extends reference blueprints.<name>.
ExtendPath(name) == BlueprintsPrefix \o <<".">> \o name

validateExtendsFormat(extend) ==
    IF extend = <<>> THEN FALSE
    ELSE LET parts == Split(extend, ".")
         IN  Len(parts) = 2 /\ parts[1] = BlueprintsPrefix /\ parts[2] # <<>>

validateRegexCompilation(regex) == regex = NoRegex \/ regex.compiles

\* The number of operators a Condition selects.
operatorCount(condition) ==
    Cardinality({f \in {"Exists", "Equals", "NotEquals", "Contains", "GreaterThan", "LessThan"} :
                    condition[f] # Nil})
       + (IF Len(condition.And) > 0 THEN 1 ELSE 0)
       + (IF Len(condition.Or) > 0 THEN 1 ELSE 0)

ValidateConditionStruct(condition) ==
    ReportIf(operatorCount(condition) # 1, "exactly_one_condition_type", "condition")

\* The fields of the operator structs: Key and Value are required.
operandErrors(condition) ==
    ReportIf(condition.Exists # Nil /\ condition.Exists.Key = "", "required", "key")
       (+) BagSum([f \in {"Equals", "NotEquals"} |->
                      IF condition[f] = Nil THEN EmptyBag
                      ELSE ReportIf(condition[f].Key = "", "required", "key")
                              (+) ReportIf(condition[f].Value = Nil, "required", "value")])
       (+) (IF condition.Contains = Nil THEN EmptyBag
            ELSE ReportIf(condition.Contains.Key = "", "required", "key")
                    (+) ReportIf(condition.Contains.Value = <<>>, "required", "value"))
       (+) BagSum([f \in {"GreaterThan", "LessThan"} |->
                      IF condition[f] = Nil THEN EmptyBag
                      ELSE ReportIf(condition[f].Key = "", "required", "key")
                              (+) ReportIf(condition[f].Value = 0, "required", "value")])

\* Mutant: the conditions inside And and Or are not entered.
conditionErrorsTopOnly(condition) ==
    operandErrors(condition) (+) ValidateConditionStruct(condition)

\* A Condition: its operands, the conditions of And and Or (`dive`), then the
\* struct-level function.
RECURSIVE conditionErrors(_)
conditionErrors(condition) ==
    operandErrors(condition)
       (+) BagSum([n \in DOMAIN condition.And |->
                      IF condition.And[n] = Nil THEN EmptyBag
                      ELSE conditionErrors(condition.And[n])])
       (+) BagSum([n \in DOMAIN condition.Or |->
                      IF condition.Or[n] = Nil THEN EmptyBag
                      ELSE conditionErrors(condition.Or[n])])
       (+) ValidateConditionStruct(condition)

actionErrors(action) ==
    diveRequired(action.MustContainKeys, "", "mustContainKeys")
       (+) diveRequired(action.ShouldContainKeys, "", "shouldContainKeys")

\* A Rule: When and Then are required, and entered when present.
ruleErrors(rule) ==
    (IF rule.When = Nil THEN Report("required", "when") ELSE conditionErrors(rule.When))
       (+) (IF rule.Then = Nil THEN Report("required", "then") ELSE actionErrors(rule.Then))

ValidateValidationStruct(v) ==
    (IF v.Type = TagTypeBool
     THEN ReportIf(v.MinValue # 0, "no_extras_for_bool", "minValue")
             (+) ReportIf(v.MaxValue # 0, "no_extras_for_bool", "maxValue")
             (+) ReportIf(Len(v.AllowedValues) > 0, "no_extras_for_bool", "allowedValues")
             (+) ReportIf(v.Regex # NoRegex, "no_extras_for_bool", "regex")
     ELSE EmptyBag)
       (+) (IF v.Type # TagTypeInt
            THEN ReportIf(v.MinValue # 0, "only_int_supports_minmax", "minValue")
                    (+) ReportIf(v.MaxValue # 0, "only_int_supports_minmax", "maxValue")
            ELSE EmptyBag)
       (+) ReportIf(v.Type # TagTypeInt /\ v.Type # TagTypeString /\ Len(v.AllowedValues) > 0,
                    "allowedvalues_for_int_or_str_only", "allowedValues")
       (+) ReportIf(v.Type # TagTypeString /\ v.Regex # NoRegex, "regex_for_str_only", "regex")
       (+) ReportIf(v.Regex # NoRegex /\ Len(v.AllowedValues) > 0,
                    "regex_xor_allowedvalues", "allowedValues")

\* Mutant: MaxValue is not compared with MinValue.
maxValueErrorsNone(v) == EmptyBag

\* MaxValue `omitempty,gtecsfield=MinValue`: a MaxValue of 0 is not looked at.
maxValueErrors(v) ==
    ReportIf(v.MaxValue # 0 /\ v.MaxValue < v.MinValue, "gtecsfield", "maxValue")

\* A Validation: Type `required,oneof=bool string int` (the first failing tag
\* of a field is the one reported), AllowedValues, Regex, MaxValue, then the
\* struct-level function.
validationErrors(v) ==
    (IF v.Type = "" THEN Report("required", "type")
     ELSE ReportIf(v.Type \notin {TagTypeBool, TagTypeString, TagTypeInt}, "oneof", "type"))
       (+) diveRequired(v.AllowedValues, <<>>, "allowedValues")
       (+) ReportIf(~validateRegexCompilation(v.Regex), "valid_regex", "regex")
       (+) maxValueErrors(v)
       (+) ValidateValidationStruct(v)

tagPolicyErrors(tagPolicy) ==
    diveRequired(tagPolicy.MandatoryKeys, "", "mandatoryKeys")
       (+) BagSum([key \in DOMAIN tagPolicy.Validations |->
                      IF tagPolicy.Validations[key] = Nil THEN EmptyBag
                      ELSE validationErrors(tagPolicy.Validations[key])])
       (+) BagSum([n \in DOMAIN tagPolicy.Rules |->
                      IF tagPolicy.Rules[n] = Nil THEN EmptyBag
                      ELSE ruleErrors(tagPolicy.Rules[n])])

\* A Blueprint: its TagPolicy is required.
blueprintErrors(blueprint) ==
    IF blueprint.TagPolicy = Nil THEN Report("required", "TagPolicy")
    ELSE tagPolicyErrors(blueprint.TagPolicy)

\* A ResourceConfig: TagPolicy `omitempty`, Extends `omitempty,dive,extends_format`.
resourceConfigErrors(resourceConfig) ==
    (IF resourceConfig.TagPolicy = Nil THEN EmptyBag
     ELSE tagPolicyErrors(resourceConfig.TagPolicy))
       (+) BagSum([n \in DOMAIN resourceConfig.Extends |->
                      ReportIf(~validateExtendsFormat(resourceConfig.Extends[n]),
                               "extends_format", "extends")])

\* The blueprint_exists check of one extends entry: the name is parts[1] of
\* the entry as written, looked up as a key of policy.Blueprints.
blueprintMissing(policy, extendName) ==
    LET parts == Split(extendName, ".")
    IN  /\ extendName # <<>>
        /\ Len(parts) = 2
        /\ parts[2] \notin DOMAIN Ranged(policy.Blueprints)

ValidatePolicyStruct(policy) ==
    ReportIf(policy.Resources = Nil, "required", "resources")
       (+) BagSum([sname \in DOMAIN Ranged(policy.Resources) |->
              IF policy.Resources[sname] = Nil THEN Report("required", "resources")
              ELSE BagSum([rname \in DOMAIN policy.Resources[sname] |->
                      LET resourceConfig == policy.Resources[sname][rname]
                      IN  IF resourceConfig = Nil THEN EmptyBag
                          ELSE BagSum([n \in DOMAIN resourceConfig.Extends |->
                                  ReportIf(blueprintMissing(policy, resourceConfig.Extends[n]),
                                           "blueprint_exists", "extends")])])])

\* The fields of Policy: Blueprints `omitempty,dive`, Resources
\* `required,min=1,dive,keys,required,endkeys,dive`.
policyFieldErrors(policy) ==
    BagSum([name \in DOMAIN Ranged(policy.Blueprints) |->
               IF policy.Blueprints[name] = Nil THEN EmptyBag
               ELSE blueprintErrors(policy.Blueprints[name])])
       (+) (IF policy.Resources = Nil THEN Report("required", "resources")
            ELSE IF DOMAIN policy.Resources = {} THEN Report("min", "resources")
            ELSE BagSum([sname \in DOMAIN policy.Resources |->
                    ReportIf(sname = "", "required", "resources")
                       (+) BagSum([rname \in DOMAIN Ranged(policy.Resources[sname]) |->
                               IF policy.Resources[sname][rname] = Nil THEN EmptyBag
                               ELSE resourceConfigErrors(policy.Resources[sname][rname])])]))

\* validate.Struct(policy): the fields, then the struct-level function.
StructErrors(policy) == policyFieldErrors(policy) (+) ValidatePolicyStruct(policy)

\* &ParserErrors{Messages: ...} and its Error() text, of which the count and
\* the messages are kept.
ParserErrors(messages) == [kind |-> "ParserErrors", Messages |-> messages]

ErrorText(err) == [count |-> BagCardinality(err.Messages), messages |-> err.Messages]

\* Mutant: only one failure is kept.
ValidatePolicyFirstOnly(policy) ==
    LET errors == StructErrors(policy)
    IN  IF BagCardinality(errors) = 0 THEN NoError
        ELSE ParserErrors(SetToBag({CHOOSE m \in BagToSet(errors) : TRUE}))

ValidatePolicy(policy) ==
    LET errors == StructErrors(policy)
    IN  IF BagCardinality(errors) = 0 THEN NoError ELSE ParserErrors(errors)

\* ParsePolicy: ValidatePolicy, whose error is wrapped with its text in
\* fmt.Errorf("failed to validate policy: %w", err), then ProcessPolicy on a
\* policy that passed.
ParsePolicy(policy, visit, keyOrders) ==
    LET err == ValidatePolicy(policy)
    IN  IF err # NoError
        THEN [panic |-> FALSE, config |-> policy, definitions |-> <<>>,
              err |-> [kind |-> "failed to validate policy", wrapped |-> err,
                       text |-> ErrorText(err)]]
        ELSE ProcessPolicy(policy, visit, keyOrders)

(***************************************************************************)
(* The parser used directly: a policy is drawn, then ProcessPolicy is      *)
(* applied to it.                                                          *)
(***************************************************************************)
BackupRule ==
    Rule(EqualsCondition("environment", AnyString(Prod)),
         Action(<<"backup-policy">>, <<>>, "", ""))

OwnerRule == Rule(ExistsCondition("critical"), Action(<<>>, <<"owner">>, "", ""))

NameRule == Rule(ExistsCondition("name"), Action(<<>>, <<>>, "Warning 1", ""))

BaseBlueprint ==
    Blueprint(TagPolicy(<<"environment", "owner">>,
                        [k \in {"environment"} |->
                            Validation(TagTypeString, <<Prod, Dev>>, NoRegex, 0, 0)],
                        <<BackupRule>>))

ProductionBlueprint ==
    Blueprint(TagPolicy(<<"owner", "cost-center">>,
                        [k \in {"environment", "cost-center"} |->
                            IF k = "environment"
                            THEN Validation(TagTypeString, <<>>, RegexClassPlus(Lower), 0, 0)
                            ELSE Validation(TagTypeInt, <<>>, NoRegex, 1, 90)],
                        <<OwnerRule, BackupRule>>))

SampleBlueprints ==
    {Nil,
     [name \in {<<"a">>, <<"b">>} |-> IF name = <<"a">> THEN BaseBlueprint
                                       ELSE ProductionBlueprint]}

SampleExtends ==
    {<<>>,
     <<ExtendPath(<<"a">>)>>,
     <<ExtendPath(<<"a">>), ExtendPath(<<"b">>)>>,
     <<ExtendPath(<<"b">>), ExtendPath(<<"a">>)>>,
     <<ExtendPath(<<"a">>), ExtendPath(<<"a">>)>>,
     <<<<" ">> \o ExtendPath(<<"b">>) \o <<" ">> >>,
     <<ExtendPath(<<"z">>)>>,
     <<BlueprintsPrefix>>}

SampleOwnPolicies ==
    {Nil}
       \cup {TagPolicy(keys, validations, rules) :
                keys \in {<<>>, <<"name">>, <<"owner", "name", "owner">>},
                validations \in {EmptyMap,
                                 [k \in {"environment", "name"} |->
                                     Validation(TagTypeBool, <<>>, NoRegex, 0, 0)]},
                rules \in {<<>>, <<NameRule, BackupRule>>}}

SampleConfigs ==
    {Policy(blueprints,
            [service \in {"ec2", "s3"} |->
                IF service = "ec2"
                THEN [resourceType \in {"instance", "volume"} |->
                         IF resourceType = "instance" THEN ResourceConfig(own, extends)
                         ELSE Nil]
                ELSE [resourceType \in {"bucket"} |->
                         ResourceConfig(TagPolicy(<<"name">>, EmptyMap, <<>>), <<>>)]]) :
        blueprints \in SampleBlueprints, own \in SampleOwnPolicies, extends \in SampleExtends}

\* Conditions for the rules of a policy document: with one operator, with
\* none, with two, and And/Or lists that hold such conditions one and two
\* levels down.
TwoOperators ==
    [ExistsCondition("critical") EXCEPT !.Equals = [Key |-> "critical", Value |-> AnyString(True)]]

ParseConditions ==
    {ExistsCondition("critical"),
     AndCondition(<<ExistsCondition("critical"),
                    OrCondition(<<ExistsCondition("owner"),
                                  EqualsCondition("environment", AnyString(Prod))>>)>>),
     EmptyCondition,
     TwoOperators,
     [AndCondition(<<ExistsCondition("critical")>>) EXCEPT !.Or = <<ExistsCondition("owner")>>],
     AndCondition(<<ExistsCondition("critical"), EmptyCondition>>),
     AndCondition(<<EmptyCondition, EmptyCondition>>),
     OrCondition(<<AndCondition(<<ExistsCondition("critical"), TwoOperators>>),
                   ExistsCondition("owner")>>)}

ParseRuleLists ==
    {<<>>, <<Rule(Nil, Action(<<"owner">>, <<>>, "", ""))>>,
     <<Rule(EmptyCondition, Action(<<"owner">>, <<>>, "", "")), Rule(TwoOperators, Nil)>>}
       \cup {<<Rule(when, Action(<<"owner">>, <<>>, "", ""))>> : when \in ParseConditions}

\* Validations maps for a policy document: int validations with MinValue and
\* MaxValue in either order, at 0 and below it, and the other failures
\* TestInvalidPolicies lists.
ParseLimits == {<<1, 90>>, <<3, 3>>, <<100, 10>>, <<5, 0>>, <<0, 0>>, <<0 - 5, 0>>, <<0 - 5, 0 - 9>>}

ParseValidations ==
    {EmptyMap,
     [k \in {"test"} |-> Validation("invalid", <<>>, NoRegex, 0, 0)],
     [k \in {"test"} |-> Validation(TagTypeString, <<>>, RegexBroken, 0, 0)],
     [k \in {"test"} |-> Validation(TagTypeString, <<Prod>>, RegexClassPlus(Lower), 0, 0)],
     [k \in {"test"} |-> Validation(TagTypeString, <<>>, NoRegex, 1, 10)],
     [k \in {"test"} |-> Validation(TagTypeString, <<>>, NoRegex, 100, 10)],
     [k \in {"test", "ttl"} |->
         IF k = "test" THEN Validation(TagTypeInt, <<>>, NoRegex, 100, 10)
         ELSE Validation(TagTypeInt, <<>>, NoRegex, 1, 90)]}
       \cup {[k \in {"ttl"} |-> Validation(TagTypeInt, <<>>, NoRegex, limits[1], limits[2])] :
                limits \in ParseLimits}

\* Blueprints maps with an extends list: no blueprints, a blueprint that is
\* extended, one that is missing, a reference without a name, a blueprint
\* whose name ends in a space, a nil blueprint and one without a TagPolicy.
ParseBlueprints ==
    {<<Nil, <<>> >>,
     <<[name \in {<<"a">>, <<"b">>} |-> IF name = <<"a">> THEN BaseBlueprint
                                         ELSE ProductionBlueprint],
       <<ExtendPath(<<"a">>)>> >>,
     <<[name \in {<<"a">>} |-> BaseBlueprint], <<ExtendPath(<<"z">>)>> >>,
     <<[name \in {<<"a">>} |-> BaseBlueprint], <<ExtendPath(<<"a">>), BlueprintsPrefix>> >>,
     <<[name \in {<<"a">>, <<"b", " ">>} |-> IF name = <<"a">> THEN BaseBlueprint
                                              ELSE ProductionBlueprint],
       <<ExtendPath(<<"b", " ">>)>> >>,
     <<[name \in {<<"a">>} |-> Nil], <<ExtendPath(<<"a">>)>> >>,
     <<[name \in {<<"a">>} |-> Blueprint(Nil)], <<ExtendPath(<<"a">>)>> >>}

\* A document with one configured and one empty resource type.
ParseDocument(blueprints, own, extends) ==
    Policy(blueprints,
           [service \in {"ec2"} |->
               [resourceType \in {"instance", "volume"} |->
                   IF resourceType = "instance" THEN ResourceConfig(own, extends) ELSE Nil]])

\* The documents handed to ParsePolicy: the validations and rules in the
\* resource configuration or in the blueprint it extends, and documents
\* without resources.
ParseDocuments ==
    {ParseDocument(b[1], TagPolicy(<<"name">>, validations, rules), b[2]) :
        b \in ParseBlueprints, validations \in ParseValidations, rules \in ParseRuleLists}
       \cup {ParseDocument([name \in {<<"a">>} |->
                               Blueprint(TagPolicy(<<"owner">>, validations, rules))],
                           Nil, extends) :
                validations \in ParseValidations, rules \in ParseRuleLists,
                extends \in {<<>>, <<ExtendPath(<<"a">>)>>}}
       \cup {Policy(Nil, Nil), Policy(Nil, EmptyMap),
             Policy(Nil, [service \in {"ec2"} |-> Nil]),
             Policy(Nil, [service \in {"ec2"} |-> EmptyMap]),
             Policy(Nil, [service \in {""} |-> [resourceType \in {"instance"} |-> Nil]])}

InitParser ==
    /\ document \in SampleConfigs \cup ParseDocuments
    /\ parseResult = NotParsed
    /\ RunIdle
    /\ ResourceIdle
    /\ RulerIdle
    /\ SummaryIdle

\* definitions, err := parser.ProcessPolicy(document)
CallProcessPolicy ==
    /\ parseResult = NotParsed
    /\ \E visit \in VisitOrders(document) :
          \E keyOrders \in KeyOrdersFrom(document, visit, 1) :
             LET out == ProcessPolicy(document, visit, keyOrders)
             IN  /\ document' = out.config
                 /\ parseResult' = [op |-> "ProcessPolicy", policy |-> document,
                                    visit |-> visit, panic |-> out.panic,
                                    definitions |-> out.definitions, err |-> out.err]
    /\ UNCHANGED otherThanParser

\* definitions, err := parser.ParsePolicy(document)
CallParsePolicy ==
    /\ parseResult = NotParsed
    /\ \E visit \in (IF ValidatePolicy(document) = NoError THEN VisitOrders(document)
                      ELSE {<<>>}) :
          \E keyOrders \in KeyOrdersFrom(document, visit, 1) :
             LET out == ParsePolicy(document, visit, keyOrders)
             IN  /\ document' = out.config
                 /\ parseResult' = [op |-> "ParsePolicy", policy |-> document,
                                    visit |-> visit, panic |-> out.panic,
                                    definitions |-> out.definitions, err |-> out.err]
    /\ UNCHANGED otherThanParser

NextParser ==
    \/ CallProcessPolicy
    \/ CallParsePolicy

SpecParser == InitParser /\ [][NextParser]_vars

(***************************************************************************)
(* Patrol.Summary: the text it formats is the record of the values it      *)
(* prints, each percentage as the number of tenths that %.1f shows.        *)
(***************************************************************************)
\* percentage(a, b), as printed with one decimal: the tenth nearest to
\* a * 100 / b.  A value half-way between two tenths needs a total that is a
\* multiple of 16; it then prints the even tenth.
percentage(a, b) ==
    IF b = 0 THEN 0
    ELSE LET q == (a * 1000) \div b
             r == (a * 1000) % b
         IN  IF 2 * r > b \/ (2 * r = b /\ q % 2 = 1) THEN q + 1 ELSE q

NoTotals ==
    [totalResources |-> 0, totalCompliant |-> 0, totalNonCompliant |-> 0,
     definitionsWithErrors |-> 0]

\* A loop body that adds the counts of an errored Result as well.
addResultIgnoringError(totals, r) ==
    [totalResources |-> totals.totalResources + Len(r.Resources.items),
     totalCompliant |-> totals.totalCompliant + r.CompliantCount,
     totalNonCompliant |-> totals.totalNonCompliant + r.NonCompliantCount,
     definitionsWithErrors |->
         totals.definitionsWithErrors + (IF r.Error # NoError THEN 1 ELSE 0)]

\* The body of Summary's loop over the results.
addResult(totals, r) ==
    IF r.Error # NoError
    THEN [totals EXCEPT !.definitionsWithErrors = @ + 1]
    ELSE [totals EXCEPT !.totalResources = @ + Len(r.Resources.items),
                        !.totalCompliant = @ + r.CompliantCount,
                        !.totalNonCompliant = @ + r.NonCompliantCount]

RECURSIVE summaryTotals(_, _, _)
summaryTotals(rs, n, totals) ==
    IF n > Len(rs) THEN totals
    ELSE summaryTotals(rs, n + 1, addResult(totals, rs[n]))

Summary(rs) ==
    LET totals == summaryTotals(rs, 1, NoTotals)
    IN  [Processed |-> Len(rs),
         Found |-> totals.totalResources,
         Compliant |-> totals.totalCompliant,
         CompliantPercent |-> percentage(totals.totalCompliant, totals.totalResources),
         NonCompliant |-> totals.totalNonCompliant,
         NonCompliantPercent |->
             percentage(totals.totalNonCompliant, totals.totalResources),
         Errors |-> totals.definitionsWithErrors]

\* The Results given to Summary: of definitions whose search found count
\* resources, compliant of them compliant, and of definitions whose search
\* failed, as Run leaves them and with counts filled in by hand.
MaxResults == 3

FoundResult(count, compliant) ==
    [Definition |-> 1, Resources |-> Slice([n \in 1..count |-> Nil]),
     CompliantCount |-> compliant, NonCompliantCount |-> count - compliant,
     Error |-> NoError]

SummaryResults ==
    {FoundResult(0, 0), FoundResult(1, 1), FoundResult(1, 0), FoundResult(2, 1),
     FoundResult(3, 3), FoundResult(3, 1),
     [NewResult(1) EXCEPT !.Error = WrapFindError(1, FinderError)],
     [FoundResult(2, 1) EXCEPT !.Error = WrapFindError(1, FinderError)]}

RECURSIVE SeqsUpTo(_, _)
SeqsUpTo(set, n) ==
    IF n = 0 THEN {<<>>}
    ELSE LET shorter == SeqsUpTo(set, n - 1)
         IN  shorter \cup {Append(q, x) : q \in shorter, x \in set}

InitSummary ==
    /\ summaryInput \in SeqsUpTo(SummaryResults, MaxResults)
    /\ summary = NoSummary
    /\ RunIdle
    /\ ResourceIdle
    /\ RulerIdle
    /\ ParserIdle

CallSummary ==
    /\ summary = NoSummary
    /\ summary' = [op |-> "Summary", text |-> Summary(summaryInput)]
    /\ UNCHANGED summaryInput
    /\ UNCHANGED otherThanSummary

NextSummary == CallSummary

SpecSummary == InitSummary /\ [][NextSummary]_vars

(***************************************************************************)
(* Properties of Run.                                                      *)
(***************************************************************************)
Returned == pcMain = "returned"

Inputs == 1..definitions

\* The positions of the Results of definition d in a Result sequence.
ResultsOf(rs, d) == {i \in 1..Len(rs) : rs[i].Definition = d}

\* The workers that hold a semaphore slot: dispatched, slot not yet given back.
Busy ==
    {d \in Defs : pcWorker[d] \in {"fetching", "validating", "lock", "append",
                                   "errsend", "release"}}

\* The Results of a sequence that carry an error.
Errored(rs) == {i \in 1..Len(rs) : rs[i].Error # NoError}

\* C1: with StopOnError=false and a context that is never cancelled, when Run
\* returns (every FindResources call having returned) the returned sequence holds
\* exactly one Result for every input definition, and a Result carries an error
\* exactly when the fetch of its definition failed.
C1_AllResultsOnReturn ==
    (/\ Returned
     /\ ~options.StopOnError
     /\ ~ctxDone
     /\ \A d \in Inputs : fetched[d].returned)
    => /\ Len(ret.results) = definitions
       /\ \A d \in Inputs : Cardinality(ResultsOf(ret.results, d)) = 1
       /\ \A i \in 1..Len(ret.results) :
             (ret.results[i].Error # NoError) <=> (fetched[ret.results[i].Definition].err # NoError)

\* C2: with StopOnError=true and a context that is never cancelled, a Run that
\* returns after the fetch of a dispatched definition failed (the failure is
\* among the returned Results) returns a non-nil top-level error.
C2_StopOnErrorReturnsError ==
    (/\ Returned
     /\ options.StopOnError
     /\ ~ctxDone
     /\ Errored(ret.results) # {})
    => ret.err # NoError

\* C3: the number of definitions whose worker has been dispatched and has not
\* yet given its slot back is at most ConcurrentWorkers.
C3_BoundedConcurrency == Cardinality(Busy) <= options.ConcurrentWorkers

\* C3 witness: the one slot is taken and the dispatch loop waits for it.
C3_Witness ==
    /\ options.ConcurrentWorkers = 1
    /\ Cardinality(Busy) = 1
    /\ pcMain = "acquire"
    /\ idx = 2

\* C4: called with an already-cancelled context, Run returns the cancellation
\* error and an empty Result sequence and has started no FindResources call,
\* for every definitions list and every option.
C4_PreCancelled ==
    (preCancelled /\ Returned)
    => /\ ret.err = Canceled
       /\ ret.results = <<>>
       /\ \A d \in Defs : pcWorker[d] = "pending"

\* C5: with StopOnError=false and a context that is never cancelled, the error
\* Run returns is nil however many fetches failed, and a failure shows only as
\* the Error of the Result of the definition whose fetch failed.
C5_NoTopLevelError ==
    /\ (Returned /\ ~options.StopOnError /\ ~ctxDone) => ret.err = NoError
    /\ ~options.StopOnError =>
          /\ errorCh = <<>>
          /\ \A i \in 1..Len(results) :
                (results[i].Error # NoError) <=> (fetched[results[i].Definition].err # NoError)

\* C5 witness: Run has returned nil although two fetches failed and are recorded.
C5_Witness ==
    /\ Returned
    /\ ~options.StopOnError
    /\ ~ctxDone
    /\ ret.err = NoError
    /\ Cardinality(Errored(ret.results)) >= 2

\* A step at which Run observes the cancellation returns the cancellation error
\* and the results recorded so far.
C6_ReturnsStep ==
    /\ (pcMain = "ctxcheck" /\ ctxDone /\ pcMain' # pcMain)
          => (pcMain' = "returned" /\ ret' = [results |-> results, err |-> Canceled])
    /\ (pcMain # "returned" /\ pcMain' = "returned" /\ ret'.err = Canceled)
          => (ctxDone /\ ret'.results = results)

\* C6: a cancellation that Run observes, at the check before a dispatch or in
\* the final select, makes it return at that step with the cancellation error
\* and the results recorded so far; in the final select the cancelled context is
\* enough for that return, whatever the workers in flight are doing.
C6_CancellationReturns ==
    /\ []((pcMain = "final" /\ ctxDone /\ ~panicked) => ENABLED MainFinalCtx)
    /\ [][C6_ReturnsStep]_vars

\* C6 witness: Run has returned the cancellation error with one Result while a
\* FindResources call is still in flight.
C6_Witness ==
    /\ Returned
    /\ ~preCancelled
    /\ ret.err = Canceled
    /\ Len(ret.results) = 1
    /\ \E d \in Defs : pcWorker[d] = "fetching"

\* C7: under StopOnError, once the failed fetch of a definition is recorded in
\* results, no step dispatches a definition (no FindResources call is started).
C7_NoDispatchAfterFailure ==
    [][(options.StopOnError /\ Errored(results) # {})
          => \A d \in Defs : pcWorker[d] = "pending" => pcWorker'[d] = "pending"]_vars

\* The workers inside the locked region of the append.
InAppend == {d \in Defs : pcWorker[d] = "append"}

\* The workers that have stored their Result.
Stored == {d \in Defs : pcWorker[d] \in {"errsend", "release", "wgdone", "finished"}}

\* C8: at most one worker is in the append at a time and no append is lost:
\* results holds one Result for each worker that has stored one and none for the
\* others, so that once all dispatched workers have finished it holds exactly
\* one Result per dispatched definition.
C8_AppendUnderMutex ==
    /\ Cardinality(InAppend) <= 1
    /\ InAppend # {} => resultsMutex \in InAppend
    /\ \A d \in Defs :
          Cardinality(ResultsOf(results, d)) = IF d \in Stored THEN 1 ELSE 0
    /\ (\A d \in Defs : pcWorker[d] \in {"pending", "finished"})
          => Len(results) = Cardinality({d \in Defs : pcWorker[d] = "finished"})

\* C8 witness: two workers that ran at the same time have both finished.
C8_Witness ==
    /\ options.ConcurrentWorkers = 2
    /\ definitions = 2
    /\ \A d \in Inputs : pcWorker[d] = "finished"
    /\ Len(results) = 2

\* The lifecycle of a definition, read off its worker and the results.
Phase(d) ==
    IF ResultsOf(results, d) # {} THEN "Done"
    ELSE IF pcWorker[d] = "pending" THEN "Pending"
    ELSE IF pcWorker[d] = "fetching" THEN "Fetching"
    ELSE IF result[d].Error # NoError THEN "FetchFailed"
    ELSE "Validating"

PhaseSteps ==
    {<<"Pending", "Fetching">>, <<"Fetching", "FetchFailed">>, <<"Fetching", "Validating">>,
     <<"FetchFailed", "Done">>, <<"Validating", "Done">>}

C9_Recorded ==
    \A d \in Defs :
       /\ validateCalls[d] <= 1
       /\ validateCalls[d] = 1 => (fetched[d].returned /\ fetched[d].err = NoError)
       /\ Phase(d) \in {"Pending", "Fetching", "FetchFailed"} => validateCalls[d] = 0
       /\ \A i \in ResultsOf(results, d) :
             IF fetched[d].err # NoError
             THEN /\ validateCalls[d] = 0
                  /\ results[i] = [Definition |-> d, Resources |-> NilSlice,
                                   CompliantCount |-> 0, NonCompliantCount |-> 0,
                                   Error |-> WrapFindError(d, fetched[d].err)]
             ELSE /\ fetched[d].returned
                  /\ validateCalls[d] = 1
                  /\ results[i].Error = NoError
                  /\ results[i].CompliantCount + results[i].NonCompliantCount
                        = Len(fetched[d].resources.items)

\* C9: every definition goes Pending -> Fetching -> (FetchFailed | Validating)
\* -> Done: ValidateAll is invoked only after its FindResources call returned
\* without error and before its Result is recorded; after a failed fetch
\* ValidateAll is never invoked and the Result carries the fetch error, nil
\* Resources and zero counts.
C9_DefinitionLifecycle ==
    /\ []C9_Recorded
    /\ [][\A d \in Defs : Phase(d)' # Phase(d) => <<Phase(d), Phase(d)'>> \in PhaseSteps]_vars

\* C9 witness: one definition is Done after a failed fetch, another after validation.
C9_Witness ==
    \E d, e \in Defs :
       /\ Phase(d) = "Done" /\ fetched[d].err # NoError
       /\ Phase(e) = "Done" /\ fetched[e].err = NoError /\ validateCalls[e] = 1
       /\ \E i \in ResultsOf(results, e) : results[i].NonCompliantCount = 1

(***************************************************************************)
(* Properties of the resource model.                                       *)
(***************************************************************************)
IsPrefix(s, t) == Len(s) <= Len(t) /\ SubSeq(t, 1, Len(s)) = s

C10_Step ==
    /\ IsPrefix(ComplianceErrors(resource), ComplianceErrors(resource'))
    /\ IsPrefix(ComplianceWarnings(resource), ComplianceWarnings(resource'))
    /\ ComplianceErrors(resource') = ComplianceErrors(resource)
          => IsCompliant(resource') = IsCompliant(resource)

\* C10: after any sequence of AddComplianceError, AddComplianceWarning and
\* Validate calls, IsCompliant() is true exactly when no error is recorded; a
\* call that records only warnings leaves IsCompliant() as it was, and both
\* sequences only grow at their end.
C10_CompliantIffNoErrors ==
    /\ [](IsCompliant(resource) <=> ComplianceErrors(resource) = <<>>)
    /\ [][C10_Step]_vars

\* C10 witness: Validate has recorded warnings, after an earlier
\* AddComplianceWarning call, on a resource that is still compliant.
C10_Witness ==
    /\ lastCall = "Validate"
    /\ calls = 2
    /\ Len(ComplianceWarnings(resource)) = 3
    /\ ComplianceErrors(resource) = <<>>
    /\ IsCompliant(resource)

(***************************************************************************)
(* Properties of the rule evaluation engine.                               *)
(***************************************************************************)
\* The resource a call was made on, before and after the call.
CallBefore == rulerCall.before[rulerCall.i]

CallAfter == subjects[rulerCall.i]

Drop(s, n) == SubSeq(s, n + 1, Len(s))

\* The findings the call recorded on that resource.
NewErrors == Drop(ComplianceErrors(CallAfter), Len(ComplianceErrors(CallBefore)))

NewWarnings == Drop(ComplianceWarnings(CallAfter), Len(ComplianceWarnings(CallBefore)))

NoFindings(r) == ComplianceErrors(r) = <<>> /\ ComplianceWarnings(r) = <<>>

Count(s, x) == Cardinality({n \in DOMAIN s : s[n] = x})

\* C11: after the mandatory-key check of a resource without prior findings,
\* the resource has exactly one `Missing mandatory tag` error for every key of
\* the key set that is absent from its tags, none for a key that is present,
\* whatever its value, and no other finding.
C11_MandatoryKeyErrors ==
    (rulerCall.op = "validateMandatoryKeys" /\ NoFindings(CallBefore))
    => LET keys == rulerCall.arg
           tags == Tags(CallBefore)
       IN  /\ \A n \in DOMAIN keys :
                 Count(ComplianceErrors(CallAfter), MsgMissingMandatory(keys[n]))
                    = IF keys[n] \in DOMAIN tags THEN 0 ELSE 1
           /\ Len(ComplianceErrors(CallAfter))
                 = Cardinality({n \in DOMAIN keys : keys[n] \notin DOMAIN tags})
           /\ ComplianceWarnings(CallAfter) = <<>>
           /\ Tags(CallAfter) = tags

\* C11 witness: of three mandatory keys one is absent, one is present and one
\* is present with an empty value; the check recorded the absent one.
C11_Witness ==
    /\ rulerCall.op = "validateMandatoryKeys"
    /\ NoFindings(CallBefore)
    /\ Len(rulerCall.arg) = 3
    /\ "owner" \in DOMAIN Tags(CallBefore)
    /\ Tags(CallBefore)["owner"] = <<>>
    /\ ComplianceErrors(CallAfter) = <<MsgMissingMandatory("cost-center")>>

\* The errors among errs that a call recorded for tag key.
ErrorsOfKey(errs, key) == LET Of(m) == m.key = key IN SelectSeq(errs, Of)

CountFmt(errs, f) == Cardinality({n \in DOMAIN errs : errs[n].fmt = f})

One(b) == IF b THEN 1 ELSE 0

\* C12: an int validation of a present tag records, for a value that is not a
\* base-10 integer, exactly the `not a valid integer` error; for a value that
\* is one, `less than minimum` iff MinValue # 0 and value < MinValue, `greater
\* than maximum` iff MaxValue # 0 and value > MaxValue, `not in allowed values`
\* iff AllowedValues is non-empty and lacks the literal string, and nothing
\* else.  With MinValue = 1 and MaxValue = 90, "30" records nothing, "150" the
\* maximum error only and "thirty" the integer error only.
C12_IntValidation ==
    rulerCall.op = "validateTagValues"
    => \A key \in DOMAIN rulerCall.arg \cap DOMAIN Tags(CallBefore) :
          LET v      == rulerCall.arg[key]
              value  == Tags(CallBefore)[key]
              errs   == ErrorsOfKey(NewErrors, key)
              parsed == Atoi(value)
              low    == v.MinValue # 0 /\ parsed.val < v.MinValue
              high   == v.MaxValue # 0 /\ parsed.val > v.MaxValue
              other  == /\ Len(v.AllowedValues) > 0
                        /\ \A n \in DOMAIN v.AllowedValues : v.AllowedValues[n] # value
          IN  v.Type = TagTypeInt
              => /\ \A n \in -200..200 :
                       value = FormatV(AnyInt(n)) => (~parsed.err /\ parsed.val = n)
                 /\ value = Thirty => parsed.err
                 /\ parsed.err => errs = <<MsgNotInt(key, value)>>
                 /\ ~parsed.err =>
                       /\ CountFmt(errs, "less than minimum") = One(low)
                       /\ CountFmt(errs, "greater than maximum") = One(high)
                       /\ CountFmt(errs, "not in allowed values") = One(other)
                       /\ Len(errs) = One(low) + One(high) + One(other)
                 /\ (v.MinValue = 1 /\ v.MaxValue = 90 /\ v.AllowedValues = <<>>) =>
                       /\ value = <<"3", "0">> => errs = <<>>
                       /\ value = <<"1", "5", "0">>
                             => errs = <<MsgGreaterThanMax(key, 150, 90)>>
                       /\ value = Thirty => errs = <<MsgNotInt(key, Thirty)>>

\* C12 witness: "150" was validated against MinValue = 1, MaxValue = 90 and
\* the maximum error is the only one recorded.
C12_Witness ==
    /\ rulerCall.op = "validateTagValues"
    /\ DOMAIN rulerCall.arg = {"ttl"}
    /\ rulerCall.arg["ttl"] = Validation(TagTypeInt, <<>>, NoRegex, 1, 90)
    /\ "ttl" \in DOMAIN Tags(CallBefore)
    /\ Tags(CallBefore)["ttl"] = <<"1", "5", "0">>
    /\ NewErrors = <<MsgGreaterThanMax("ttl", 150, 90)>>

\* What the claim says a string validation records for a value.
StringErrorExpected(key, value, v) ==
    IF Len(v.AllowedValues) > 0 /\ \A n \in DOMAIN v.AllowedValues : v.AllowedValues[n] # value
    THEN <<MsgNotAllowed(key, value, v.AllowedValues)>>
    ELSE IF v.Regex # NoRegex /\ v.Regex.compiles /\ ~MatchString(v.Regex, value)
    THEN <<MsgNoRegexMatch(key, value, v.Regex)>>
    ELSE <<>>

\* The string validations of the call whose tag is present.
StringKeys ==
    {key \in DOMAIN rulerCall.arg \cap DOMAIN Tags(CallBefore) :
        rulerCall.arg[key].Type = TagTypeString}

\* C13 as stated: a string validation of a present tag records at most one
\* error, `not in allowed values` when AllowedValues is non-empty and lacks the
\* value, otherwise `does not match regex` when Regex is set and the value does
\* not match, and never both.
C13_AtMostOneStringError ==
    rulerCall.op = "validateTagValues"
    => \A key \in StringKeys :
          /\ Len(ErrorsOfKey(NewErrors, key)) <= 1
          /\ ErrorsOfKey(NewErrors, key)
                = StringErrorExpected(key, Tags(CallBefore)[key], rulerCall.arg[key])

\* C13 amended: the same for a string validation that does not set both
\* AllowedValues and Regex, which is what policy validation accepts.
C13_ExclusiveStringValidation ==
    rulerCall.op = "validateTagValues"
    => \A key \in StringKeys :
          (rulerCall.arg[key].AllowedValues = <<>> \/ rulerCall.arg[key].Regex = NoRegex)
          => /\ Len(ErrorsOfKey(NewErrors, key)) <= 1
             /\ ErrorsOfKey(NewErrors, key)
                   = StringErrorExpected(key, Tags(CallBefore)[key], rulerCall.arg[key])

\* C13 witness: a value outside the allowed values of a validation without
\* regex has its one error.
C13_Witness ==
    /\ rulerCall.op = "validateTagValues"
    /\ StringKeys = {"environment"}
    /\ rulerCall.arg["environment"] = Validation(TagTypeString, <<Prod, Dev>>, NoRegex, 0, 0)
    /\ Tags(CallBefore)["environment"] = Qa
    /\ NewErrors = <<MsgNotAllowed("environment", Qa, <<Prod, Dev>>)>>

\* The call evaluated a condition whose one operator is NotEquals.
IsNotEqualsCall ==
    /\ rulerCall.op = "evaluateCondition"
    /\ rulerCall.arg # Nil
    /\ rulerCall.arg.NotEquals # Nil
    /\ rulerCall.arg = NotEqualsCondition(rulerCall.arg.NotEquals.Key,
                                          rulerCall.arg.NotEquals.Value)

\* C14: NotEquals(k, v) is true when k is absent from the tags and when k is
\* present with a value other than the string form of v; it is false only when
\* the tag is present and equals that string form (30 against "30", true
\* against "true").
C14_NotEquals ==
    IsNotEqualsCall
    => LET k    == rulerCall.arg.NotEquals.Key
           v    == rulerCall.arg.NotEquals.Value
           tags == Tags(CallBefore)
       IN  /\ k \notin DOMAIN tags => rulerCall.ret = TRUE
           /\ k \in DOMAIN tags => (rulerCall.ret <=> tags[k] # FormatV(v))
           /\ (k \in DOMAIN tags /\ v = AnyInt(30) /\ tags[k] = <<"3", "0">>)
                 => rulerCall.ret = FALSE
           /\ (k \in DOMAIN tags /\ v = AnyBool(TRUE) /\ tags[k] = True)
                 => rulerCall.ret = FALSE
           /\ (k \in DOMAIN tags /\ v = AnyString(Prod))
                 => (rulerCall.ret <=> tags[k] # Prod)
           /\ subjects = rulerCall.before

\* C14 witness: NotEquals(environment, prod) was evaluated to true on a
\* resource without the environment tag.
C14_Witness ==
    /\ IsNotEqualsCall
    /\ rulerCall.arg.NotEquals = [Key |-> "environment", Value |-> AnyString(Prod)]
    /\ "environment" \notin DOMAIN Tags(CallBefore)
    /\ rulerCall.ret = TRUE

\* A condition tree is well formed when every node selects exactly one operator.
RECURSIVE WellFormed(_)
WellFormed(c) ==
    /\ c # Nil
    /\ One(c.Exists # Nil) + One(c.Equals # Nil) + One(c.NotEquals # Nil)
          + One(c.Contains # Nil) + One(c.GreaterThan # Nil) + One(c.LessThan # Nil)
          + One(Len(c.And) > 0) + One(Len(c.Or) > 0) = 1
    /\ \A n \in DOMAIN c.And : WellFormed(c.And[n])
    /\ \A n \in DOMAIN c.Or : WellFormed(c.Or[n])

\* The nodes of a well-formed condition tree.
RECURSIVE Nodes(_)
Nodes(c) ==
    {c} \cup UNION {Nodes(c.And[n]) : n \in DOMAIN c.And}
        \cup UNION {Nodes(c.Or[n]) : n \in DOMAIN c.Or}

ProdAndCritical ==
    AndCondition(<<EqualsCondition("environment", AnyString(Prod)), ExistsCondition("critical")>>)

\* C15: in a well-formed condition tree of any depth, on any tags, an And node
\* is true iff all its sub-conditions are and an Or node is true iff one of its
\* sub-conditions is; a rule with And[Equals(environment, prod),
\* Exists(critical)] applies its Then on {environment: prod, critical: true}
\* and not on {environment: prod}.
C15_AndOr ==
    /\ (rulerCall.op = "evaluateCondition" /\ WellFormed(rulerCall.arg))
       => \A node \in Nodes(rulerCall.arg) :
             LET Value(c) == IF c = rulerCall.arg THEN rulerCall.ret
                             ELSE evaluateCondition(CallBefore, c)
             IN  /\ Len(node.And) > 0
                       => (Value(node) <=> \A n \in DOMAIN node.And : Value(node.And[n]))
                 /\ Len(node.Or) > 0
                       => (Value(node) <=> \E n \in DOMAIN node.Or : Value(node.Or[n]))
    /\ (/\ rulerCall.op = "applyRules"
        /\ Len(rulerCall.arg) = 1
        /\ rulerCall.arg[1].When = ProdAndCritical)
       => /\ Tags(CallBefore) = TagMap({<<"environment", Prod>>, <<"critical", True>>})
                => /\ CallAfter = applyAction(CallBefore, rulerCall.arg[1].Then)
                   /\ (rulerCall.arg[1].Then # Nil /\ rulerCall.arg[1].Then.Error # "")
                         => NewErrors # <<>>
          /\ Tags(CallBefore) = TagMap({<<"environment", Prod>>})
                => CallAfter = CallBefore

\* C15 witness: a tree three levels deep, an And over an Or (or an And) over
\* atoms, was evaluated to true.
C15_Witness ==
    /\ rulerCall.op = "evaluateCondition"
    /\ rulerCall.arg \in RulerLevel3
    /\ Len(rulerCall.arg.And) > 0
    /\ Len(rulerCall.arg.And[1].Or) > 0
    /\ rulerCall.ret = TRUE

RECURSIVE Sum(_)
Sum(s) == IF s = <<>> THEN 0 ELSE s[1] + Sum(Tail(s))

Absent(keys, tags) == Cardinality({n \in DOMAIN keys : keys[n] \notin DOMAIN tags})

\* The number of errors and of warnings the claim gives to a rule on these tags.
RuleErrors(r, rule) ==
    IF ~evaluateCondition(r, rule.When) \/ rule.Then = Nil THEN 0
    ELSE Absent(rule.Then.MustContainKeys, Tags(r)) + One(rule.Then.Error # "")

RuleWarnings(r, rule) ==
    IF ~evaluateCondition(r, rule.When) \/ rule.Then = Nil THEN 0
    ELSE Absent(rule.Then.ShouldContainKeys, Tags(r)) + One(rule.Then.Warn # "")

\* C16: a rule whose When is true adds (MustContainKeys absent from the tags)
\* + (1 if Error is set) errors and (ShouldContainKeys absent from the tags)
\* + (1 if Warn is set) warnings, a rule whose When is false adds nothing;
\* MandatoryKeys = [environment, owner, cost-center] with the rule
\* Equals(environment, prod) -> MustContainKeys [backup-policy] and an Error
\* gives a fresh resource tagged {environment: prod} exactly 4 errors and makes
\* it non-compliant.
C16_ActionEffects ==
    /\ rulerCall.op = "applyRules"
       => /\ Len(NewErrors)
                = Sum([n \in DOMAIN rulerCall.arg |-> RuleErrors(CallBefore, rulerCall.arg[n])])
          /\ Len(NewWarnings)
                = Sum([n \in DOMAIN rulerCall.arg |-> RuleWarnings(CallBefore, rulerCall.arg[n])])
    /\ (/\ rulerCall.op = "Validate"
        /\ rulerCall.arg = BackupPolicy
        /\ CallBefore = NewResource(TagMap({<<"environment", Prod>>})))
       => /\ Len(ComplianceErrors(CallAfter)) = 4
          /\ {ComplianceErrors(CallAfter)[n] : n \in 1..4}
                = {MsgMissingMandatory("owner"), MsgMissingMandatory("cost-center"),
                   MsgMissingRequired("backup-policy"),
                   MsgLiteral("Production resources need backup policy")}
          /\ ~IsCompliant(CallAfter)

\* C16 witness: one matching rule with two required keys (both absent), two
\* recommended keys (one absent), an Error and a Warn added 3 errors and 2
\* warnings.
C16_Witness ==
    /\ rulerCall.op = "applyRules"
    /\ Len(rulerCall.arg) = 1
    /\ rulerCall.arg[1].Then = Action(<<"backup-policy", "owner">>, <<"contact", "environment">>,
                                      "Warning 1", "Error 1")
    /\ Tags(CallBefore) = TagMap({<<"environment", Prod>>})
    /\ Len(NewErrors) = 3
    /\ Len(NewWarnings) = 2

\* C17: ValidateAll applies Validate once to every element of resources and
\* returns counts that add up to len(resources), a resource being counted
\* compliant iff its error sequence is empty afterwards; a resource that
\* carried an error before the call is counted non-compliant even when the
\* policy adds none.
C17_ValidateAllCounts ==
    rulerCall.op = "ValidateAll"
    => LET before == rulerCall.before
           clean  == {n \in DOMAIN subjects : ComplianceErrors(subjects[n]) = <<>>}
           prior  == {n \in DOMAIN before : ComplianceErrors(before[n]) # <<>>}
       IN  /\ Len(subjects) = Len(before)
           /\ \A n \in DOMAIN before :
                 subjects[n] = Validate(before[n], rulerCall.arg, rulerCall.order[n])
           /\ rulerCall.ret.compliant + rulerCall.ret.nonCompliant = Len(before)
           /\ rulerCall.ret.compliant = Cardinality(clean)
           /\ rulerCall.ret.nonCompliant = Len(before) - Cardinality(clean)
           /\ prior \cap clean = {}
           /\ rulerCall.ret.nonCompliant >= Cardinality(prior)

\* C17 witness: of two resources one carried an error from an earlier call;
\* the empty policy added nothing and the counts are 1 and 1.
C17_Witness ==
    /\ rulerCall.op = "ValidateAll"
    /\ rulerCall.arg = TagPolicy(<<>>, EmptyMap, <<>>)
    /\ Len(rulerCall.before) = 2
    /\ ComplianceErrors(rulerCall.before[1]) = <<MsgLiteral("Error 1")>>
    /\ subjects = rulerCall.before
    /\ rulerCall.ret = [compliant |-> 1, nonCompliant |-> 1]

(***************************************************************************)
(* Properties of the policy parser.                                        *)
(***************************************************************************)
\* ProcessPolicy has returned definitions.
Resolved == parseResult.op = "ProcessPolicy" /\ ~parseResult.panic

\* The resource configuration a definition was resolved from, as it was in
\* the policy handed to ProcessPolicy, its own TagPolicy and the blueprints it
\* extends, in the order of its extends list.
ConfigOf(d) == parseResult.policy.Resources[d.Service][d.ResourceType]

OwnOf(d) == ownPolicy(ConfigOf(d))

ExtendedBy(d) == extendedBlueprints(parseResult.policy, ConfigOf(d))

\* The definitions resolved from a configuration that is present.
Configured ==
    {d \in SeqRange(parseResult.definitions) : ConfigOf(d) # Nil}

\* C18: the MandatoryKeys of a resolved definition are, as a set, the union of
\* the configuration's own mandatory keys and those of every blueprint it
\* extends, and no key is in the list twice, also when the configuration and
\* a blueprint, or two blueprints, list the same key.
C18_MandatoryKeysUnion ==
    Resolved
    => \A d \in Configured :
          /\ SeqRange(d.MandatoryKeys)
                = SeqRange(OwnOf(d).MandatoryKeys)
                     \cup UNION {SeqRange(ExtendedBy(d)[n].TagPolicy.MandatoryKeys) :
                                    n \in DOMAIN ExtendedBy(d)}
          /\ \A i, j \in DOMAIN d.MandatoryKeys :
                i # j => d.MandatoryKeys[i] # d.MandatoryKeys[j]

\* C18 witness: a configuration that lists owner twice and extends two
\* blueprints that both list owner is resolved to four distinct keys.
C18_Witness ==
    /\ Resolved
    /\ \E d \in Configured :
          /\ OwnOf(d).MandatoryKeys = <<"owner", "name", "owner">>
          /\ Len(ExtendedBy(d)) = 2
          /\ ExtendedBy(d)[1] # ExtendedBy(d)[2]
          /\ SeqRange(d.MandatoryKeys) = {"owner", "name", "environment", "cost-center"}
          /\ Len(d.MandatoryKeys) = 4

\* C19: in a resolved definition the validation of a key the configuration
\* defines a validation for is the configuration's own, whatever the extended
\* blueprints define for it; any other validation of the definition is the
\* one an extended blueprint defines for its key, and every key an extended
\* blueprint validates is validated.
C19_OwnValidationsWin ==
    Resolved
    => \A d \in Configured :
          LET own == OwnOf(d).Validations
              bps == ExtendedBy(d)
          IN  /\ DOMAIN d.Validations
                    = DOMAIN own \cup UNION {DOMAIN bps[n].TagPolicy.Validations : n \in DOMAIN bps}
              /\ \A key \in DOMAIN own : d.Validations[key] = own[key]
              /\ \A key \in DOMAIN d.Validations \ DOMAIN own :
                    \E n \in DOMAIN bps :
                       /\ key \in DOMAIN bps[n].TagPolicy.Validations
                       /\ d.Validations[key] = bps[n].TagPolicy.Validations[key]

\* C19 witness: the configuration and an extended blueprint both validate
\* environment, differently; the definition has the configuration's
\* validation for it and the blueprint's for cost-center.
C19_Witness ==
    /\ Resolved
    /\ \E d \in Configured :
          /\ "environment" \in DOMAIN OwnOf(d).Validations
          /\ \E n \in DOMAIN ExtendedBy(d) :
                /\ "environment" \in DOMAIN ExtendedBy(d)[n].TagPolicy.Validations
                /\ ExtendedBy(d)[n].TagPolicy.Validations["environment"]
                      # OwnOf(d).Validations["environment"]
          /\ d.Validations["environment"] = OwnOf(d).Validations["environment"]
          /\ "cost-center" \in DOMAIN d.Validations

\* C20: the Rules of a resolved definition are the rules of the extended
\* blueprints, blueprint after blueprint in the order of extends and each in
\* its own order, followed by the configuration's own rules: the length is the
\* sum of the lengths and nothing is dropped, merged or replaced.
C20_RulesConcatenated ==
    Resolved
    => \A d \in Configured :
          LET bps     == ExtendedBy(d)
              lens    == [n \in DOMAIN bps |-> Len(bps[n].TagPolicy.Rules)]
              Base(n) == Sum(SubSeq(lens, 1, n - 1))
          IN  /\ Len(d.Rules) = Sum(lens) + Len(OwnOf(d).Rules)
              /\ \A n \in DOMAIN bps :
                    \A m \in DOMAIN bps[n].TagPolicy.Rules :
                       d.Rules[Base(n) + m] = bps[n].TagPolicy.Rules[m]
              /\ \A m \in DOMAIN OwnOf(d).Rules :
                    d.Rules[Sum(lens) + m] = OwnOf(d).Rules[m]

\* C20 witness: two blueprints and the configuration all hold the same rule;
\* the definition has it three times among its five rules, the blueprints'
\* rules first.
C20_Witness ==
    /\ Resolved
    /\ \E d \in Configured :
          /\ Len(ExtendedBy(d)) = 2
          /\ d.Rules = <<OwnerRule, BackupRule, BackupRule, NameRule, BackupRule>>

(***************************************************************************)
(* Properties of ParsePolicy.                                              *)
(***************************************************************************)
\* ParsePolicy has been called; the policy it was given passes ValidatePolicy.
Parsed == parseResult.op = "ParsePolicy"

Valid == ValidatePolicy(parseResult.policy) = NoError

\* The (service, resourceType) pairs a policy declares.
DeclaredPairs(policy) ==
    UNION {{<<s, t>> : t \in DOMAIN Ranged(Ranged(policy.Resources)[s])} :
              s \in DOMAIN Ranged(policy.Resources)}

\* The positions of the definitions returned for a pair.
DefinitionsOf(pair) ==
    {n \in DOMAIN parseResult.definitions :
        /\ parseResult.definitions[n].Service = pair[1]
        /\ parseResult.definitions[n].ResourceType = pair[2]}

\* C21: for a policy that passes validation ParsePolicy returns, without an
\* error, exactly one definition for every declared (service, resourceType)
\* pair and nothing else, and the definition of a pair whose configuration is
\* nil has no mandatory keys, no validations and no rules.
C21_OneDefinitionPerPair ==
    (Parsed /\ Valid)
    => /\ ~parseResult.panic
       /\ parseResult.err = NoError
       /\ Len(parseResult.definitions) = Cardinality(DeclaredPairs(parseResult.policy))
       /\ \A pair \in DeclaredPairs(parseResult.policy) :
             /\ Cardinality(DefinitionsOf(pair)) = 1
             /\ parseResult.policy.Resources[pair[1]][pair[2]] = Nil
                => \A n \in DefinitionsOf(pair) :
                      /\ parseResult.definitions[n].MandatoryKeys = <<>>
                      /\ parseResult.definitions[n].Validations = EmptyMap
                      /\ parseResult.definitions[n].Rules = <<>>

\* The tag policies of a policy: those of its blueprints and of its resource
\* configurations.
TagPoliciesOf(policy) ==
    ({Ranged(policy.Blueprints)[name].TagPolicy :
         name \in {b \in DOMAIN Ranged(policy.Blueprints) : policy.Blueprints[b] # Nil}}
        \cup UNION {{Ranged(policy.Resources[s])[t].TagPolicy :
                       t \in {u \in DOMAIN Ranged(policy.Resources[s]) :
                                 policy.Resources[s][u] # Nil}} :
                      s \in DOMAIN Ranged(policy.Resources)})
       \ {Nil}

\* The conditions under When in the rules of a policy.
ConditionsOf(policy) ==
    UNION {{tagPolicy.Rules[n].When :
              n \in {m \in DOMAIN tagPolicy.Rules : tagPolicy.Rules[m] # Nil}} :
             tagPolicy \in TagPoliciesOf(policy)}
       \ {Nil}

\* ParsePolicy failed in validation: its error wraps ParserErrors, and no
\* definitions are returned.
Rejected ==
    /\ ~parseResult.panic
    /\ parseResult.err # NoError
    /\ parseResult.err.wrapped.kind = "ParserErrors"
    /\ parseResult.definitions = <<>>

Messages == parseResult.err.wrapped.Messages

\* C22: ParsePolicy fails for a policy in which a condition, under When or at
\* any depth below it in And and Or lists, in a blueprint or in a resource
\* configuration, selects no operator or more than one; the error has the
\* message `A Condition must specify exactly one operator ...` and no
\* definitions are returned.
C22_ExactlyOneOperator ==
    (Parsed /\ \E c \in ConditionsOf(parseResult.policy) : ~WellFormed(c))
    => /\ Rejected
       /\ \E m \in BagToSet(Messages) :
             m.text = "A Condition must specify exactly one operator (e.g., exists, equals, and, or)."

\* C22 witness: a blueprint's rule has a condition with two operators two
\* levels below its When and nothing else is wrong in the policy; ParsePolicy
\* fails with that one message.
C22_Witness ==
    /\ Parsed
    /\ Rejected
    /\ BagCardinality(Messages) = 1
    /\ \A m \in BagToSet(Messages) : m.tag = "exactly_one_condition_type"
    /\ \E name \in DOMAIN Ranged(parseResult.policy.Blueprints) :
          \E c \in ConditionsOf(Policy([b \in {name} |-> parseResult.policy.Blueprints[name]],
                                       EmptyMap)) :
             /\ operatorCount(c) = 1
             /\ \E n \in DOMAIN c.Or :
                   /\ operatorCount(c.Or[n]) = 1
                   /\ \E m \in DOMAIN c.Or[n].And : operatorCount(c.Or[n].And[m]) = 2

\* The number of conditions in a condition tree that select no operator or
\* more than one.
RECURSIVE BadNodeCount(_)
BadNodeCount(c) ==
    IF c = Nil THEN 0
    ELSE One(~(One(c.Exists # Nil) + One(c.Equals # Nil) + One(c.NotEquals # Nil)
                  + One(c.Contains # Nil) + One(c.GreaterThan # Nil) + One(c.LessThan # Nil)
                  + One(Len(c.And) > 0) + One(Len(c.Or) > 0) = 1))
            + Sum([n \in DOMAIN c.And |-> BadNodeCount(c.And[n])])
            + Sum([n \in DOMAIN c.Or |-> BadNodeCount(c.Or[n])])

\* The sum of the numbers a function has on its domain.
RECURSIVE SumOver(_)
SumOver(f) ==
    IF DOMAIN f = {} THEN 0
    ELSE LET i == CHOOSE j \in DOMAIN f : TRUE
         IN  f[i] + SumOver([j \in DOMAIN f \ {i} |-> f[j]])

\* The places of a policy that hold a tag policy: its blueprints and its
\* resource configurations.
PlacesOf(policy) ==
    {<<name>> : name \in {b \in DOMAIN Ranged(policy.Blueprints) :
                             /\ policy.Blueprints[b] # Nil
                             /\ policy.Blueprints[b].TagPolicy # Nil}}
       \cup {pair \in DeclaredPairs(policy) :
                /\ policy.Resources[pair[1]][pair[2]] # Nil
                /\ policy.Resources[pair[1]][pair[2]].TagPolicy # Nil}

TagPolicyAt(policy, place) ==
    IF Len(place) = 1 THEN policy.Blueprints[place[1]].TagPolicy
    ELSE policy.Resources[place[1]][place[2]].TagPolicy

\* Three kinds of violation counted in the policy itself: conditions without
\* exactly one operator, validations whose MaxValue is set and below
\* MinValue, extends entries blueprints.<name> without a blueprint <name>.
BadConditions(policy) ==
    SumOver([place \in PlacesOf(policy) |->
                LET rules == TagPolicyAt(policy, place).Rules
                IN  Sum([n \in DOMAIN rules |->
                            IF rules[n] = Nil THEN 0 ELSE BadNodeCount(rules[n].When)])])

BadLimits(policy) ==
    SumOver([place \in PlacesOf(policy) |->
                LET validations == TagPolicyAt(policy, place).Validations
                IN  Cardinality({key \in DOMAIN validations :
                                    /\ validations[key].MaxValue # 0
                                    /\ validations[key].MaxValue < validations[key].MinValue})])

NamesMissing(policy, extend) ==
    LET prefix == Len(BlueprintsPrefix) + 1
        name   == SubSeq(extend, prefix + 1, Len(extend))
    IN  /\ Len(extend) > prefix
        /\ SubSeq(extend, 1, prefix) = BlueprintsPrefix \o <<".">>
        /\ \A n \in DOMAIN name : name[n] # "."
        /\ name \notin DOMAIN Ranged(policy.Blueprints)

MissingBlueprints(policy) ==
    SumOver([pair \in {q \in DeclaredPairs(policy) : policy.Resources[q[1]][q[2]] # Nil} |->
                LET extends == policy.Resources[pair[1]][pair[2]].Extends
                IN  Cardinality({n \in DOMAIN extends : NamesMissing(policy, extends[n])})])

\* The number of messages of a validation tag.
MessagesOf(tag) ==
    SumOver([m \in {x \in BagToSet(Messages) : x.tag = tag} |-> CopiesIn(m, Messages)])

\* C23: for a policy with several structural violations ParsePolicy returns
\* one error that wraps ParserErrors and no definitions; the messages have an
\* entry for every violation, not only for the first (as many entries of
\* their kind as there are conditions without exactly one operator, limits in
\* the wrong order and missing blueprints), and the error text gives the
\* number of messages.
C23_AllViolationsReported ==
    LET policy == parseResult.policy
    IN  (/\ Parsed
         /\ DOMAIN Ranged(policy.Resources) # {}
         /\ BadConditions(policy) + BadLimits(policy) + MissingBlueprints(policy) >= 2)
        => /\ Rejected
           /\ MessagesOf("exactly_one_condition_type") = BadConditions(policy)
           /\ MessagesOf("gtecsfield") = BadLimits(policy)
           /\ MessagesOf("blueprint_exists") = MissingBlueprints(policy)
           /\ parseResult.err.text.count = BagCardinality(Messages)
           /\ parseResult.err.text.messages = Messages

\* C23 witness: a policy with two conditions without an operator, one
\* validation with MaxValue below MinValue and one missing blueprint is
\* rejected with four messages.
C23_Witness ==
    /\ Parsed
    /\ Rejected
    /\ BadConditions(parseResult.policy) = 2
    /\ BadLimits(parseResult.policy) = 1
    /\ MissingBlueprints(parseResult.policy) = 1
    /\ BagCardinality(Messages) = 4
    /\ parseResult.err.text.count = 4

\* The int validations of a tag policy, or of a definition.
IntValidationsOf(tagPolicy) ==
    {tagPolicy.Validations[key] :
        key \in {k \in DOMAIN tagPolicy.Validations :
                    tagPolicy.Validations[k].Type = TagTypeInt}}

IntValidationsIn(policy) ==
    UNION {IntValidationsOf(TagPolicyAt(policy, place)) : place \in PlacesOf(policy)}

\* ParsePolicy returned definitions.
Accepted == ~parseResult.panic /\ parseResult.err = NoError

\* C24 as stated: ParsePolicy fails for every policy with an int validation
\* whose MaxValue is smaller than its MinValue, and every int validation of a
\* returned definition has MaxValue >= MinValue.
C24_MaxAtLeastMin ==
    Parsed
    => /\ (\E v \in IntValidationsIn(parseResult.policy) : v.MaxValue < v.MinValue)
          => Rejected
       /\ Accepted
          => \A d \in SeqRange(parseResult.definitions) :
                \A v \in IntValidationsOf(d) : v.MaxValue >= v.MinValue

\* C24, amended: ParsePolicy fails, with a `greater than or equal` message,
\* for every policy with an int validation whose MaxValue is not 0 and is
\* smaller than its MinValue; every int validation of a returned definition
\* has MaxValue = 0 or MaxValue >= MinValue.
C24_SetMaxAtLeastMin ==
    Parsed
    => /\ (\E v \in IntValidationsIn(parseResult.policy) :
              v.MaxValue # 0 /\ v.MaxValue < v.MinValue)
          => /\ Rejected
             /\ \E m \in BagToSet(Messages) :
                   m.text = "{0} must be greater than or equal to {1}"
       /\ Accepted
          => \A d \in SeqRange(parseResult.definitions) :
                \A v \in IntValidationsOf(d) : v.MaxValue = 0 \/ v.MaxValue >= v.MinValue

\* C24 witness: a policy whose one fault is an int validation with MinValue
\* 100 and MaxValue 10 is rejected with one message.
C24_Witness ==
    /\ Parsed
    /\ Rejected
    /\ \E v \in IntValidationsIn(parseResult.policy) : v.MinValue = 100 /\ v.MaxValue = 10
    /\ BagCardinality(Messages) = 1
    /\ \A m \in BagToSet(Messages) : m.tag = "gtecsfield"

(***************************************************************************)
(* Properties of Summary.                                                  *)
(***************************************************************************)
Summarised == summary.op = "Summary"

Failed(n) == summaryInput[n].Error # NoError

\* The sum over the Results without error of a number taken from each.
TotalOf(Field(_)) ==
    Sum([n \in 1..Len(summaryInput) |->
             IF Failed(n) THEN 0 ELSE Field(summaryInput[n])])

FoundIn(r) == Len(r.Resources.items)

CompliantIn(r) == r.CompliantCount

NonCompliantIn(r) == r.NonCompliantCount

\* part is the tenth of a percent nearest to count out of total.
NearestTenth(part, count, total) ==
    /\ 2 * (part * total - count * 1000) <= total
    /\ 2 * (count * 1000 - part * total) <= total

\* C25: the summary reports the number of Results as processed, the number of
\* Results with an Error as errors, and as found, compliant and non-compliant
\* the sums of len(Resources), CompliantCount and NonCompliantCount over the
\* Results without Error; the two percentages are those of compliant and of
\* non-compliant in found, and both are 0 when found is 0.
C25_SummaryCounts ==
    Summarised
    => LET text == summary.text
       IN  /\ text.Processed = Len(summaryInput)
           /\ text.Errors = Cardinality({n \in 1..Len(summaryInput) : Failed(n)})
           /\ text.Found = TotalOf(FoundIn)
           /\ text.Compliant = TotalOf(CompliantIn)
           /\ text.NonCompliant = TotalOf(NonCompliantIn)
           /\ IF text.Found = 0
              THEN text.CompliantPercent = 0 /\ text.NonCompliantPercent = 0
              ELSE /\ NearestTenth(text.CompliantPercent, text.Compliant, text.Found)
                   /\ NearestTenth(text.NonCompliantPercent, text.NonCompliant,
                                   text.Found)

\* Three Results, one of them errored with counts of its own: 5 resources
\* found, 4 compliant (80.0%), 1 non-compliant (20.0%), 1 error.
C25_Witness ==
    /\ Summarised
    /\ summaryInput = <<FoundResult(3, 3), FoundResult(2, 1),
                        [FoundResult(2, 1) EXCEPT !.Error = WrapFindError(1, FinderError)]>>
    /\ summary.text = [Processed |-> 3, Found |-> 5, Compliant |-> 4,
                       CompliantPercent |-> 800, NonCompliant |-> 1,
                       NonCompliantPercent |-> 200, Errors |-> 1]

(***************************************************************************)
(* Properties of Validate.                                                 *)
(***************************************************************************)
Validated == rulerCall.op = "Validate"

\* The resource as a finder returns it: the tags of the validated resource
\* and no finding.
FreshCopy == NewResource(Tags(CallBefore))

RECURSIVE Flatten(_)
Flatten(lists) == IF lists = <<>> THEN <<>> ELSE lists[1] \o Flatten(Tail(lists))

\* What the rule at position n of the policy records on the tags by itself.
RuleAlone(n) ==
    LET rule == rulerCall.arg.Rules[n]
    IN  IF evaluateCondition(FreshCopy, rule.When) THEN applyAction(FreshCopy, rule.Then)
        ELSE FreshCopy

MandatoryAlone == validateMandatoryKeys(FreshCopy, rulerCall.arg.MandatoryKeys)

ValuesAlone == validateTagValues(FreshCopy, rulerCall.arg.Validations, rulerCall.order)

\* C26: the errors Validate adds are the mandatory-key errors, then the value
\* errors, then for each rule in declaration order the errors of that rule
\* when its condition holds on the tags, whatever the other rules did; the
\* warnings it adds are those of the rules, rule by rule in the same order.
C26_FindingsOrder ==
    Validated
    => /\ NewErrors =
             ComplianceErrors(MandatoryAlone) \o ComplianceErrors(ValuesAlone)
                 \o Flatten([n \in DOMAIN rulerCall.arg.Rules |->
                                ComplianceErrors(RuleAlone(n))])
       /\ NewWarnings =
             Flatten([n \in DOMAIN rulerCall.arg.Rules |-> ComplianceWarnings(RuleAlone(n))])

\* A mandatory key is missing, a value is invalid, the first rule does not
\* match, and the second and the third rule both match and both record errors.
C26_Witness ==
    /\ Validated
    /\ Len(rulerCall.arg.Rules) = 3
    /\ ComplianceErrors(MandatoryAlone) # <<>>
    /\ ComplianceErrors(ValuesAlone) # <<>>
    /\ ~evaluateCondition(FreshCopy, rulerCall.arg.Rules[1].When)
    /\ ComplianceErrors(RuleAlone(2)) # <<>>
    /\ ComplianceErrors(RuleAlone(3)) # <<>>
    /\ ComplianceWarnings(RuleAlone(2)) # <<>>
    /\ ComplianceWarnings(RuleAlone(3)) # <<>>

\* The bag of the messages of a list of findings.
BagOf(messages) ==
    [m \in {messages[n] : n \in DOMAIN messages} |->
        Cardinality({n \in DOMAIN messages : messages[n] = m})]

\* The same resource validated with the validations ranged in another order.
Rerun(order) == Validate(CallBefore, rulerCall.arg, order)

\* What the validation of one key records on the tags by itself.
KeyAlone(key) == validateTagValue(FreshCopy, key, rulerCall.arg.Validations[key])

\* C30: whatever the order in which the Validations map is ranged, Validate
\* records the same bag of errors and the same bag of warnings and leaves the
\* tags as they were; between two orders only the blocks of errors of the
\* validated keys change places, between the mandatory-key errors and the
\* rule errors, and the warnings come in the same order.
C30_DeterministicUpToOrder ==
    Validated
    => \A order \in RangeOrders(DOMAIN rulerCall.arg.Validations) :
          LET other == Rerun(order)
              added == Drop(ComplianceErrors(other), Len(ComplianceErrors(CallBefore)))
          IN  /\ BagOf(ComplianceErrors(other)) = BagOf(ComplianceErrors(CallAfter))
              /\ BagOf(ComplianceWarnings(other)) = BagOf(ComplianceWarnings(CallAfter))
              /\ ComplianceWarnings(other) = ComplianceWarnings(CallAfter)
              /\ Tags(other) = Tags(CallBefore)
              /\ Tags(CallAfter) = Tags(CallBefore)
              /\ added =
                    ComplianceErrors(MandatoryAlone)
                        \o Flatten([n \in DOMAIN order |-> ComplianceErrors(KeyAlone(order[n]))])
                        \o Flatten([n \in DOMAIN rulerCall.arg.Rules |->
                                       ComplianceErrors(RuleAlone(n))])

\* A fresh resource on which three validated keys each record an error, so
\* that another order of the range gives another list of errors.
C30_Witness ==
    /\ Validated
    /\ NoFindings(CallBefore)
    /\ Cardinality({key \in DOMAIN rulerCall.arg.Validations :
                       ComplianceErrors(KeyAlone(key)) # <<>>}) = 3
    /\ ComplianceWarnings(CallAfter) # <<>>
    /\ \E order \in RangeOrders(DOMAIN rulerCall.arg.Validations) :
          ComplianceErrors(Rerun(order)) # ComplianceErrors(CallAfter)

(***************************************************************************)
(* Properties of the merge of blueprint validations.                       *)
(***************************************************************************)
\* The policy was resolved, by ProcessPolicy or by ParsePolicy.
ResolvedEitherWay == parseResult.op # "none" /\ ~parseResult.panic

\* The positions in the extends list of d whose blueprint validates key.
Defining(d, key) ==
    {n \in DOMAIN ExtendedBy(d) : key \in DOMAIN ExtendedBy(d)[n].TagPolicy.Validations}

Last(positions) == CHOOSE n \in positions : \A m \in positions : m <= n

\* C29: for a key the configuration does not validate itself and one or more
\* extended blueprints do, the resolved definition has the validation of the
\* last of these blueprints in the extends list, whatever the order in which
\* the maps of the policy were ranged.
C29_LastBlueprintWins ==
    ResolvedEitherWay
    => \A d \in Configured :
          \A key \in DOMAIN d.Validations \ DOMAIN OwnOf(d).Validations :
             /\ Defining(d, key) # {}
             /\ d.Validations[key]
                   = ExtendedBy(d)[Last(Defining(d, key))].TagPolicy.Validations[key]

\* Two extended blueprints validate environment differently and the
\* configuration does not: the definition has the second one's validation.
C29_Witness ==
    /\ ResolvedEitherWay
    /\ \E d \in Configured :
          /\ "environment" \notin DOMAIN OwnOf(d).Validations
          /\ Defining(d, "environment") = {1, 2}
          /\ ExtendedBy(d)[1].TagPolicy.Validations["environment"]
                # ExtendedBy(d)[2].TagPolicy.Validations["environment"]
          /\ d.Validations["environment"]
                = ExtendedBy(d)[2].TagPolicy.Validations["environment"]

(***************************************************************************)
(* Termination of Run.                                                     *)
(***************************************************************************)
\* C27: with one or more worker slots and a context that is never cancelled,
\* Run returns.
C27_RunReturns == <>(options.ConcurrentWorkers = 0 \/ ctxDone \/ Returned)

(***************************************************************************)
(* The read of results at Run's return.                                    *)
(***************************************************************************)
\* The workers that are inside results = append(results, result): they have
\* read the slice and not yet stored it.
Appending == {d \in Defs : pcWorker[d] = "append"}

\* C28: the step in which Run returns reads results, without the mutex; no
\* worker is inside its append at that step.
C28_ReturnReadsAlone ==
    [][(pcMain # "returned" /\ pcMain' = "returned") => Appending = {}]_vars

====
